---- MODULE Spec2Model ----
(***************************************************************************)
(* A model of the back-end lowering core of the zig stage-0 compiler:      *)
(*   - the bignum kernel of src/src/bignum.cpp (specification SpecBignum), *)
(*   - the AST-to-LLIR lowering of src/src/codegen.cpp, together with an   *)
(*     interpreter of the emitted LLIR (specification SpecLower).          *)
(***************************************************************************)
EXTENDS Integers, Sequences, FiniteSets, TLC

VARIABLES
    bn_a, bn_b,     \* the two operand BigNums of the kernel's driver
    bn_t, bn_r,     \* the results of the first and of the second call
    bn_pc,          \* "in": operands ready, "t": bn_t written, "r": bn_r written
    callT, callR,   \* the calls that wrote bn_t and bn_r (operands, prior dest, return)
    query,          \* the most recent read-only call (compare, clz, ctz) and its result
    halt,           \* "run", or how the process ended: "panic", "sigfpe"
    g,              \* the CodeGen object: the analyzed function, then also its LLIR
    phase,          \* "analyzed", "generated", "running", or how compiling/running ended
    args,           \* the values the emitted function is called with
    pc,             \* the LLIR instruction to execute next: block and index
    prev_block,     \* the block control came from (selects the phi operand)
    regs,           \* the values of the executed LLIR instructions
    mem,            \* the byte-addressed memory of the running program
    sp,             \* the first free byte of the stack (alloca)
    out,            \* what the running program has printed so far
    ran,            \* the LLIR instructions executed so far
    last            \* the LLIR instruction executed last

bnvars == <<bn_a, bn_b, bn_t, bn_r, bn_pc, callT, callR, query, halt>>
lvars == <<g, phase, args, pc, prev_block, regs, mem, sp, out, ran, last>>
vars == <<bnvars, lvars>>

(***************************************************************************)
(* Bounds.  uint64_t is modelled at WordBits bits (every 64, INT64_MAX and *)
(* UINT64_MAX of the source scales with it); doubles are the integers      *)
(* -MaxFloat..MaxFloat and NaN.                                            *)
(***************************************************************************)
WordBits == 3
MaxFloat == 1

RECURSIVE Pow2(_)
Pow2(n) == IF n <= 0 THEN 1 ELSE 2 * Pow2(n - 1)

Word == 0 .. (Pow2(WordBits) - 1)
UINT64_MAX == Pow2(WordBits) - 1
INT64_MAX == Pow2(WordBits - 1) - 1
INT64_MIN == -Pow2(WordBits - 1)

BigNumKindInt == "Int"
BigNumKindFloat == "Float"

\* double: the exactly representable small integers and NaN; FUnrep is any
\* result outside the modelled range (an infinity, a fraction, a large value).
FNaN == MaxFloat + 1
FUnrep == MaxFloat + 2
FloatVals == ((-MaxFloat) .. MaxFloat) \cup {FNaN}

fadd(x, y) == IF x = FNaN \/ y = FNaN THEN FNaN
              ELSE IF x + y \in FloatVals \ {FNaN} THEN x + y ELSE FUnrep
fneg(x) == IF x = FNaN THEN FNaN ELSE -x
fmul(x, y) == IF x = FNaN \/ y = FNaN THEN FNaN
              ELSE IF x * y \in FloatVals \ {FNaN} THEN x * y ELSE FUnrep
Abs(x) == IF x < 0 THEN -x ELSE x
fdiv(x, y) == IF x = FNaN \/ y = FNaN THEN FNaN
              ELSE IF y = 0 THEN (IF x = 0 THEN FNaN ELSE FUnrep)
              ELSE IF Abs(x) % Abs(y) = 0
                   THEN (IF (x < 0) = (y < 0) THEN Abs(x) \div Abs(y) ELSE -(Abs(x) \div Abs(y)))
                   ELSE FUnrep
fmod(x, y) == IF x = FNaN \/ y = FNaN \/ y = 0 THEN FNaN
              ELSE IF x < 0 THEN -(Abs(x) % Abs(y)) ELSE x % Abs(y)
\* IEEE comparisons: every ordered comparison with a NaN is false
feq(x, y) == x # FNaN /\ y # FNaN /\ x = y
fle(x, y) == x # FNaN /\ y # FNaN /\ x <= y
fge(x, y) == x # FNaN /\ y # FNaN /\ x >= y

BigNum(k, neg, d) == [kind |-> k, is_negative |-> neg, data |-> d]
NoBn == BigNum("None", FALSE, 0)

\* the compiler builtins on unsigned long long
uaddll_overflow(x, y) == [res |-> (x + y) % Pow2(WordBits), ovf |-> x + y > UINT64_MAX]
usubll_overflow(x, y) == [res |-> (x - y + Pow2(WordBits)) % Pow2(WordBits), ovf |-> x < y]
umulll_overflow(x, y) == [res |-> (x * y) % Pow2(WordBits), ovf |-> x * y > UINT64_MAX]

bignum_normalize(bn) == IF bn.data = 0 THEN [bn EXCEPT !.is_negative = FALSE] ELSE bn

bignum_init_float(x) == BigNum(BigNumKindFloat, FALSE, x)

bignum_init_unsigned(x) == BigNum(BigNumKindInt, FALSE, x)

bignum_init_signed(x) ==
    IF x < 0 THEN BigNum(BigNumKindInt, TRUE, (-(x + 1)) + 1)
    ELSE BigNum(BigNumKindInt, FALSE, x)

bignum_init_bignum(src) == src

RECURSIVE u64_log2(_)
u64_log2(x) == IF x = 0 THEN 0 ELSE 1 + u64_log2(x \div 2)

\* 1ULL << (bit_count - 1): a shift by -1 is undefined, ub is the word it leaves
fits_max_neg(bit_count, ub) ==
    IF bit_count < WordBits
    THEN (IF bit_count = 0 THEN ub ELSE Pow2(bit_count - 1))
    ELSE INT64_MAX + 1

fits_max_pos(bit_count, ub) ==
    IF bit_count < WordBits
    THEN (fits_max_neg(bit_count, ub) + Pow2(WordBits) - 1) % Pow2(WordBits)
    ELSE INT64_MAX

\* mutant: the largest non-negative value is taken to be max_neg
bignum_fits_in_bits_max_neg(bn, bit_count, is_signed, ub) ==
    IF is_signed
    THEN bn.data <= fits_max_neg(bit_count, ub)
    ELSE IF bn.is_negative THEN bn.data = 0
    ELSE bit_count >= u64_log2(bn.data)

bignum_fits_in_bits(bn, bit_count, is_signed, ub) ==
    IF is_signed
    THEN bn.data <= (IF bn.is_negative THEN fits_max_neg(bit_count, ub)
                     ELSE fits_max_pos(bit_count, ub))
    ELSE IF bn.is_negative THEN bn.data = 0
    ELSE bit_count >= u64_log2(bn.data)

bignum_truncate(bn, bit_count) ==
    IF bit_count < WordBits THEN [bn EXCEPT !.data = bn.data % Pow2(bit_count)] ELSE bn

\* int64_t x = x_uint; return -x: the negation of INT64_MIN overflows, which is
\* undefined; ub is the word the build then produces.
bignum_to_twos_complement(bn, ub) ==
    IF bn.is_negative
    THEN IF bn.data = Pow2(WordBits - 1) THEN ub
         ELSE (Pow2(WordBits) - bn.data) % Pow2(WordBits)
    ELSE bn.data

\* op1 non-negative, op2 negative: dest->is_negative is assigned only when the
\* subtraction wraps, otherwise it keeps what dest held before the call
bignum_add_pos_neg(dest, op1, op2) ==
    LET s == usubll_overflow(op1.data, op2.data) IN
    IF s.ovf
    THEN [dest |-> bignum_normalize(BigNum(op1.kind, TRUE, (UINT64_MAX - s.res) + 1)),
          ret |-> FALSE]
    ELSE [dest |-> bignum_normalize(BigNum(op1.kind, dest.is_negative, s.res)),
          ret |-> FALSE]

bignum_add(dest, op1, op2) ==
    IF op1.kind = BigNumKindFloat
    THEN [dest |-> BigNum(op1.kind, dest.is_negative, fadd(op1.data, op2.data)), ret |-> FALSE]
    ELSE IF op1.is_negative = op2.is_negative
    THEN LET s == uaddll_overflow(op1.data, op2.data) IN
         [dest |-> BigNum(op1.kind, op1.is_negative, s.res), ret |-> s.ovf]
    ELSE IF ~op1.is_negative /\ op2.is_negative
    THEN bignum_add_pos_neg(dest, op1, op2)
    ELSE bignum_add_pos_neg(dest, op2, op1)

bignum_negate(dest, op) ==
    IF op.kind = BigNumKindFloat
    THEN BigNum(op.kind, dest.is_negative, fneg(op.data))
    ELSE bignum_normalize(BigNum(op.kind, ~op.is_negative, op.data))

\* op2_negated is a local of bignum_sub; bignum_negate assigns every field of an integer
bignum_sub(dest, op1, op2) ==
    bignum_add(dest, op1, bignum_negate(BigNum(op2.kind, FALSE, 0), op2))

bignum_mul(dest, op1, op2) ==
    IF op1.kind = BigNumKindFloat
    THEN [dest |-> BigNum(op1.kind, dest.is_negative, fmul(op1.data, op2.data)), ret |-> FALSE]
    ELSE LET m == umulll_overflow(op1.data, op2.data) IN
         IF m.ovf
         THEN [dest |-> BigNum(op1.kind, dest.is_negative, m.res), ret |-> TRUE]
         ELSE [dest |-> bignum_normalize(
                            BigNum(op1.kind, op1.is_negative # op2.is_negative, m.res)),
               ret |-> FALSE]

\* q is the quotient word: op1 / op2, or whatever the machine leaves when op2 is 0
bignum_div(dest, op1, op2, q) ==
    IF op1.kind = BigNumKindFloat
    THEN [dest |-> BigNum(op1.kind, dest.is_negative, fdiv(op1.data, op2.data)), ret |-> FALSE]
    ELSE [dest |-> bignum_normalize(
                       BigNum(op1.kind, op1.is_negative # op2.is_negative, q)),
          ret |-> FALSE]

\* the integer branch is reached with both operands non-negative only (zig_panic
\* otherwise); q is the remainder word
bignum_rem(dest, op1, op2, q) ==
    IF op1.kind = BigNumKindFloat
    THEN [dest |-> BigNum(op1.kind, dest.is_negative, fmod(op1.data, op2.data)), ret |-> FALSE]
    ELSE [dest |-> bignum_normalize(BigNum(op1.kind, dest.is_negative, q)), ret |-> FALSE]

\* the bits of two words combined one by one
BitOf(op, a, b) ==
    CASE op = "or" -> IF a + b > 0 THEN 1 ELSE 0
      [] op = "and" -> a * b
      [] op = "xor" -> (a + b) % 2

RECURSIVE Bitwise(_, _, _, _)
Bitwise(op, x, y, n) ==
    IF n = 0 THEN 0
    ELSE BitOf(op, x % 2, y % 2) + 2 * Bitwise(op, x \div 2, y \div 2, n - 1)

\* or, and, xor, shl and shr assign dest's kind and x_uint only
bignum_or(dest, op1, op2) ==
    [dest |-> BigNum(BigNumKindInt, dest.is_negative, Bitwise("or", op1.data, op2.data, WordBits)),
     ret |-> FALSE]

bignum_and(dest, op1, op2) ==
    [dest |-> BigNum(BigNumKindInt, dest.is_negative, Bitwise("and", op1.data, op2.data, WordBits)),
     ret |-> FALSE]

bignum_xor(dest, op1, op2) ==
    [dest |-> BigNum(BigNumKindInt, dest.is_negative, Bitwise("xor", op1.data, op2.data, WordBits)),
     ret |-> FALSE]

\* a shift by the word's width or more is undefined: ub is the word it leaves
bignum_shl(dest, op1, op2, ub) ==
    [dest |-> BigNum(BigNumKindInt, dest.is_negative,
                     IF op2.data < WordBits
                     THEN (op1.data * Pow2(op2.data)) % Pow2(WordBits) ELSE ub),
     ret |-> FALSE]

bignum_shr(dest, op1, op2, ub) ==
    [dest |-> BigNum(BigNumKindInt, dest.is_negative,
                     IF op2.data < WordBits THEN op1.data \div Pow2(op2.data) ELSE ub),
     ret |-> FALSE]

\* the conversion of a word to int64_t
ToInt64(x) == IF x > INT64_MAX THEN x - Pow2(WordBits) ELSE x

not_bits(op, bit_count, ub) ==
    IF bit_count < WordBits
    THEN (UINT64_MAX - bignum_to_twos_complement(op, ub)) % Pow2(bit_count)
    ELSE UINT64_MAX - bignum_to_twos_complement(op, ub)

bignum_not(op, bit_count, is_signed, ub) ==
    IF is_signed
    THEN bignum_init_signed(ToInt64(not_bits(op, bit_count, ub)))
    ELSE bignum_init_unsigned(not_bits(op, bit_count, ub))

bignum_cmp_eq(op1, op2) ==
    IF op1.kind = BigNumKindFloat
    THEN feq(op1.data, op2.data)
    ELSE op1.data = op2.data /\ (op1.is_negative = op2.is_negative \/ op1.data = 0)

bignum_cmp_neq(op1, op2) == ~bignum_cmp_eq(op1, op2)

bignum_cmp_lte(op1, op2) ==
    IF op1.kind = BigNumKindFloat THEN fle(op1.data, op2.data)
    ELSE IF ~op1.is_negative /\ ~op2.is_negative THEN op1.data <= op2.data
    ELSE IF op1.is_negative /\ op2.is_negative THEN op1.data >= op2.data
    ELSE IF op1.is_negative /\ ~op2.is_negative THEN TRUE
    ELSE FALSE

bignum_cmp_gte(op1, op2) ==
    IF op1.kind = BigNumKindFloat THEN fge(op1.data, op2.data)
    ELSE IF ~op1.is_negative /\ ~op2.is_negative THEN op1.data >= op2.data
    ELSE IF op1.is_negative /\ op2.is_negative THEN op1.data <= op2.data
    ELSE IF op1.is_negative /\ ~op2.is_negative THEN FALSE
    ELSE TRUE

bignum_cmp_lt(op1, op2) == ~bignum_cmp_gte(op1, op2)

bignum_cmp_gt(op1, op2) == ~bignum_cmp_lte(op1, op2)

RECURSIVE ctz_loop(_, _, _, _)
ctz_loop(x, i, bit_count, result) ==
    IF i < bit_count /\ x % 2 = 0
    THEN ctz_loop(x \div 2, i + 1, bit_count, result + 1)
    ELSE result

bignum_ctz(bignum, bit_count, ub) ==
    ctz_loop(bignum_to_twos_complement(bignum, ub), 0, bit_count, 0)

RECURSIVE clz_loop(_, _, _, _, _)
clz_loop(x, mask, i, bit_count, result) ==
    IF i < bit_count /\ (x \div mask) % 2 = 0
    THEN clz_loop((x * 2) % Pow2(WordBits), mask, i + 1, bit_count, result + 1)
    ELSE result

\* mutant: the mask is one bit too high
bignum_clz_mask_off_by_one(bignum, bit_count, ub) ==
    IF bit_count = 0 THEN 0
    ELSE clz_loop(bignum_to_twos_complement(bignum, ub), Pow2(bit_count), 0, bit_count, 0)

bignum_clz(bignum, bit_count, ub) ==
    IF bit_count = 0 THEN 0
    ELSE clz_loop(bignum_to_twos_complement(bignum, ub), Pow2(bit_count - 1), 0, bit_count, 0)


(***************************************************************************)
(* The driver of the kernel.  A call writes its result into a dest object  *)
(* whose prior contents the caller does not control (a fresh local, a      *)
(* reused slot): every operation assigns dest's kind and data, so          *)
(* is_negative is the one field of the prior contents that can survive.    *)
(* Stage 1 computes bn_t from (bn_a, bn_b); stage 2 adds bn_b to bn_t or   *)
(* subtracts it, into bn_r; bignum_init_bignum copies a result back into   *)
(* an operand, so every value the kernel produces becomes an operand.      *)
(***************************************************************************)
\* under SpecBignum no function is compiled
LowerIdle ==
    /\ g = <<>> /\ phase = "idle" /\ args = <<>> /\ pc = <<0, 0>> /\ prev_block = 0
    /\ regs = <<>> /\ mem = <<>> /\ sp = 0 /\ out = <<>> /\ ran = {} /\ last = 0

Stages == {1, 2}
PriorDest == {BigNum(BigNumKindInt, neg, 0) : neg \in BOOLEAN}

NoCall == [op |-> "none", x |-> NoBn, y |-> NoBn, n |-> 0, ret |-> FALSE]
NoQuery == [op |-> "none", x |-> NoBn, y |-> NoBn, n |-> 0, val |-> 0, flag |-> FALSE, tc |-> 0]
Call(op, x, y, n, ret) == [op |-> op, x |-> x, y |-> y, n |-> n, ret |-> ret]

InitValues ==
    {bignum_init_signed(x) : x \in INT64_MIN .. INT64_MAX}
        \cup {bignum_init_unsigned(x) : x \in Word}
        \cup {bignum_init_float(x) : x \in FloatVals}

Representable(bn) == bn.kind = BigNumKindFloat => bn.data \in FloatVals

StageReady(s) == halt = "run" /\ bn_pc = (IF s = 1 THEN "in" ELSE "t")
Op1(s) == IF s = 1 THEN bn_a ELSE bn_t
Op2(s) == bn_b

WriteResult(s, res, call) ==
    /\ Representable(res)
    /\ IF s = 1
       THEN bn_t' = res /\ callT' = call /\ bn_pc' = "t" /\ UNCHANGED <<bn_r, callR>>
       ELSE bn_r' = res /\ callR' = call /\ bn_pc' = "r" /\ UNCHANGED <<bn_t, callT>>
    /\ query' = NoQuery
    /\ UNCHANGED <<bn_a, bn_b, halt>>
    /\ UNCHANGED lvars

Stop(how) ==
    /\ halt' = how
    /\ UNCHANGED <<bn_a, bn_b, bn_t, bn_r, bn_pc, callT, callR, query>>
    /\ UNCHANGED lvars

BnInit ==
    /\ bn_a \in InitValues
    /\ bn_b \in InitValues
    /\ bn_t = NoBn
    /\ bn_r = NoBn
    /\ bn_pc = "in"
    /\ callT = NoCall
    /\ callR = NoCall
    /\ query = NoQuery
    /\ halt = "run"
    /\ LowerIdle

SetOperand(dst, v) ==
    /\ halt = "run" /\ bn_pc = "in"
    /\ IF dst = "a" THEN bn_a' = v /\ bn_b' = bn_b ELSE bn_b' = v /\ bn_a' = bn_a
    /\ query' = NoQuery
    /\ UNCHANGED <<bn_t, bn_r, bn_pc, callT, callR, halt>>
    /\ UNCHANGED lvars

InitSigned ==
    \E dst \in {"a", "b"}, x \in INT64_MIN .. INT64_MAX : SetOperand(dst, bignum_init_signed(x))

InitUnsigned ==
    \E dst \in {"a", "b"}, x \in Word : SetOperand(dst, bignum_init_unsigned(x))

InitFloat ==
    \E dst \in {"a", "b"}, x \in FloatVals : SetOperand(dst, bignum_init_float(x))

\* bignum_init_bignum(&operand, &result): a result becomes an operand of later calls
InitBignum ==
    \E src \in {"t", "r"}, dst \in {"a", "b"} :
        /\ halt = "run"
        /\ bn_pc = "r" \/ (bn_pc \in {"t", "tt"} /\ src = "t")
        /\ LET v == bignum_init_bignum(IF src = "t" THEN bn_t ELSE bn_r) IN
           IF dst = "a" THEN bn_a' = v /\ bn_b' = bn_b ELSE bn_b' = v /\ bn_a' = bn_a
        /\ bn_t' = NoBn /\ bn_r' = NoBn /\ bn_pc' = "in"
        /\ callT' = NoCall /\ callR' = NoCall /\ query' = NoQuery
        /\ UNCHANGED halt
        /\ UNCHANGED lvars

Add ==
    \E s \in Stages, d0 \in PriorDest :
        /\ StageReady(s)
        /\ Op1(s).kind = Op2(s).kind
        /\ LET res == bignum_add(d0, Op1(s), Op2(s)) IN
           WriteResult(s, res.dest, Call("add", Op1(s), Op2(s), 0, res.ret))

Sub ==
    \E s \in Stages, d0 \in PriorDest :
        /\ StageReady(s)
        /\ Op1(s).kind = Op2(s).kind
        /\ LET res == bignum_sub(d0, Op1(s), Op2(s)) IN
           WriteResult(s, res.dest, Call("sub", Op1(s), Op2(s), 0, res.ret))

Mul ==
    \E s \in {1}, d0 \in PriorDest :
        /\ StageReady(s)
        /\ Op1(s).kind = Op2(s).kind
        /\ LET res == bignum_mul(d0, Op1(s), Op2(s)) IN
           WriteResult(s, res.dest, Call("mul", Op1(s), Op2(s), 0, res.ret))

Negate ==
    \E s \in {1}, d0 \in PriorDest :
        /\ StageReady(s)
        /\ WriteResult(s, bignum_negate(d0, Op1(s)), Call("negate", Op1(s), NoBn, 0, FALSE))

\* x_uint / x_uint with a nonzero divisor, and the floating division
Div ==
    \E s \in {1}, d0 \in PriorDest :
        /\ StageReady(s)
        /\ Op1(s).kind = Op2(s).kind
        /\ Op1(s).kind = BigNumKindInt => Op2(s).data # 0
        /\ LET q == IF Op1(s).kind = BigNumKindInt THEN Op1(s).data \div Op2(s).data ELSE 0
               res == bignum_div(d0, Op1(s), Op2(s), q) IN
           WriteResult(s, res.dest, Call("div", Op1(s), Op2(s), 0, res.ret))

\* x_uint / 0 is an undefined machine division: the process is killed by the
\* trap (x86), or goes on with whatever word the divide instruction left
DivByZero ==
    \E s \in {1}, d0 \in PriorDest :
        /\ StageReady(s)
        /\ Op1(s).kind = BigNumKindInt /\ Op2(s).kind = BigNumKindInt
        /\ Op2(s).data = 0
        /\ \/ Stop("sigfpe")
           \/ \E q \in Word :
                LET res == bignum_div(d0, Op1(s), Op2(s), q) IN
                WriteResult(s, res.dest, Call("div", Op1(s), Op2(s), 0, res.ret))

Rem ==
    \E s \in {1}, d0 \in PriorDest :
        /\ StageReady(s)
        /\ Op1(s).kind = Op2(s).kind
        /\ Op1(s).kind = BigNumKindInt =>
               ~Op1(s).is_negative /\ ~Op2(s).is_negative /\ Op2(s).data # 0
        /\ LET q == IF Op1(s).kind = BigNumKindInt THEN Op1(s).data % Op2(s).data ELSE 0
               res == bignum_rem(d0, Op1(s), Op2(s), q) IN
           WriteResult(s, res.dest, Call("rem", Op1(s), Op2(s), 0, res.ret))

\* zig_panic("TODO handle remainder division with negative numbers")
RemPanic ==
    \E s \in {1} :
        /\ StageReady(s)
        /\ Op1(s).kind = BigNumKindInt /\ Op2(s).kind = BigNumKindInt
        /\ Op1(s).is_negative \/ Op2(s).is_negative
        /\ Stop("panic")

RemByZero ==
    \E s \in {1}, d0 \in PriorDest :
        /\ StageReady(s)
        /\ Op1(s).kind = BigNumKindInt /\ Op2(s).kind = BigNumKindInt
        /\ ~Op1(s).is_negative /\ ~Op2(s).is_negative
        /\ Op2(s).data = 0
        /\ \/ Stop("sigfpe")
           \/ \E q \in Word :
                LET res == bignum_rem(d0, Op1(s), Op2(s), q) IN
                WriteResult(s, res.dest, Call("rem", Op1(s), Op2(s), 0, res.ret))

\* the bitwise operations take non-negative integers (asserted)
BitOperands(s) ==
    /\ StageReady(s)
    /\ Op1(s).kind = BigNumKindInt /\ Op2(s).kind = BigNumKindInt
    /\ ~Op1(s).is_negative /\ ~Op2(s).is_negative

BitOr ==
    \E s \in {1}, d0 \in PriorDest :
        /\ BitOperands(s)
        /\ LET res == bignum_or(d0, Op1(s), Op2(s)) IN
           WriteResult(s, res.dest, Call("or", Op1(s), Op2(s), 0, res.ret))

BitAnd ==
    \E s \in {1}, d0 \in PriorDest :
        /\ BitOperands(s)
        /\ LET res == bignum_and(d0, Op1(s), Op2(s)) IN
           WriteResult(s, res.dest, Call("and", Op1(s), Op2(s), 0, res.ret))

BitXor ==
    \E s \in {1}, d0 \in PriorDest :
        /\ BitOperands(s)
        /\ LET res == bignum_xor(d0, Op1(s), Op2(s)) IN
           WriteResult(s, res.dest, Call("xor", Op1(s), Op2(s), 0, res.ret))

Shl ==
    \E s \in {1}, d0 \in PriorDest, ub \in Word :
        /\ BitOperands(s)
        /\ Op2(s).data < WordBits => ub = 0
        /\ LET res == bignum_shl(d0, Op1(s), Op2(s), ub) IN
           WriteResult(s, res.dest, Call("shl", Op1(s), Op2(s), 0, res.ret))

Shr ==
    \E s \in {1}, d0 \in PriorDest, ub \in Word :
        /\ BitOperands(s)
        /\ Op2(s).data < WordBits => ub = 0
        /\ LET res == bignum_shr(d0, Op1(s), Op2(s), ub) IN
           WriteResult(s, res.dest, Call("shr", Op1(s), Op2(s), 0, res.ret))

\* bignum_truncate works in place, here on the first result ("tt": truncated)
Truncate ==
    \E bit_count \in 0 .. WordBits :
        /\ halt = "run" /\ bn_pc = "t"
        /\ bn_t.kind = BigNumKindInt
        /\ bn_t' = bignum_truncate(bn_t, bit_count)
        /\ callT' = Call("truncate", bn_t, NoBn, bit_count, FALSE)
        /\ bn_pc' = "tt"
        /\ query' = NoQuery
        /\ UNCHANGED <<bn_a, bn_b, bn_r, callR, halt>>
        /\ UNCHANGED lvars

CmpOps == {"cmp_eq", "cmp_neq", "cmp_lt", "cmp_gt", "cmp_lte", "cmp_gte"}

Compare ==
    \E op \in CmpOps :
        /\ halt = "run" /\ bn_pc = "in"
        /\ bn_a.kind = bn_b.kind
        /\ LET v == CASE op = "cmp_eq" -> bignum_cmp_eq(bn_a, bn_b)
                      [] op = "cmp_neq" -> bignum_cmp_neq(bn_a, bn_b)
                      [] op = "cmp_lt" -> bignum_cmp_lt(bn_a, bn_b)
                      [] op = "cmp_gt" -> bignum_cmp_gt(bn_a, bn_b)
                      [] op = "cmp_lte" -> bignum_cmp_lte(bn_a, bn_b)
                      [] op = "cmp_gte" -> bignum_cmp_gte(bn_a, bn_b) IN
           query' = [op |-> op, x |-> bn_a, y |-> bn_b, n |-> 0, val |-> 0, flag |-> v, tc |-> 0]
        /\ UNCHANGED <<bn_a, bn_b, bn_t, bn_r, bn_pc, callT, callR, halt>>
        /\ UNCHANGED lvars

Ctz ==
    \E bit_count \in 0 .. WordBits, ub \in Word :
        /\ halt = "run" /\ bn_pc = "in"
        /\ bn_a.kind = BigNumKindInt
        /\ query' = [op |-> "ctz", x |-> bn_a, y |-> NoBn, n |-> bit_count,
                     val |-> bignum_ctz(bn_a, bit_count, ub), flag |-> FALSE,
                     tc |-> bignum_to_twos_complement(bn_a, ub)]
        /\ UNCHANGED <<bn_a, bn_b, bn_t, bn_r, bn_pc, callT, callR, halt>>
        /\ UNCHANGED lvars

Clz ==
    \E bit_count \in 0 .. WordBits, ub \in Word :
        /\ halt = "run" /\ bn_pc = "in"
        /\ bn_a.kind = BigNumKindInt
        /\ query' = [op |-> "clz", x |-> bn_a, y |-> NoBn, n |-> bit_count,
                     val |-> bignum_clz(bn_a, bit_count, ub), flag |-> FALSE,
                     tc |-> bignum_to_twos_complement(bn_a, ub)]
        /\ UNCHANGED <<bn_a, bn_b, bn_t, bn_r, bn_pc, callT, callR, halt>>
        /\ UNCHANGED lvars

Not ==
    \E s \in {1}, bit_count \in 0 .. WordBits, is_signed \in BOOLEAN, ub \in Word :
        /\ StageReady(s)
        /\ Op1(s).kind = BigNumKindInt
        /\ WriteResult(s, bignum_not(Op1(s), bit_count, is_signed, ub),
                       Call(IF is_signed THEN "not_signed" ELSE "not_unsigned",
                            Op1(s), NoBn, bit_count, FALSE))

\* bit_count ranges over the widths below, at and above the word's
FitsInBits ==
    \E bit_count \in 0 .. WordBits + 1, is_signed \in BOOLEAN, ub \in Word :
        /\ halt = "run" /\ bn_pc = "in"
        /\ bn_a.kind = BigNumKindInt
        /\ query' = [op |-> IF is_signed THEN "fits_signed" ELSE "fits_unsigned",
                     x |-> bn_a, y |-> NoBn, n |-> bit_count, val |-> 0,
                     flag |-> bignum_fits_in_bits(bn_a, bit_count, is_signed, ub), tc |-> 0]
        /\ UNCHANGED <<bn_a, bn_b, bn_t, bn_r, bn_pc, callT, callR, halt>>
        /\ UNCHANGED lvars

BnNext ==
    \/ InitSigned \/ InitUnsigned \/ InitFloat \/ InitBignum
    \/ Add \/ Sub \/ Mul \/ Negate
    \/ Div \/ DivByZero \/ Rem \/ RemPanic \/ RemByZero
    \/ BitOr \/ BitAnd \/ BitXor \/ Shl \/ Shr
    \/ Truncate
    \/ Compare \/ Ctz \/ Clz \/ FitsInBits \/ Not

SpecBignum == BnInit /\ [][BnNext]_vars


(***************************************************************************)
(* The lowering of src/src/codegen.cpp.                                    *)
(*                                                                         *)
(* Types.  A type is named by a string; type_table gives its entry.  The   *)
(* target's pointer size and the length of the one array type are bounds.  *)
(***************************************************************************)
PointerSizeBytes == 2
ArrayLen == 3

TypeTableEntryIdVoid == "Void"
TypeTableEntryIdUnreachable == "Unreachable"
TypeTableEntryIdBool == "Bool"
TypeTableEntryIdInt == "Int"
TypeTableEntryIdPointer == "Pointer"
TypeTableEntryIdArray == "Array"
TypeTableEntryIdStruct == "Struct"
TypeTableEntryIdMaybe == "Maybe"
TypeTableEntryIdEnum == "Enum"

TypeEntry(id, child, len, fields, is_signed, usa) ==
    [id |-> id, child |-> child, len |-> len, fields |-> fields,
     is_signed |-> is_signed, is_unknown_size_array |-> usa]

\* the types of the compiled programs: builtin types, &u8, [ArrayLen]u8, []u8,
\* struct Foo {a: u8, b: isize}, ?u8 and ?Foo; i8 is the signed byte; the
\* empty array [0]u8; Bar and Baz are Foo with a zero-sized field between a
\* and b, which the layout (fields) omits; struct Pair {f: Foo, n: isize}
type_table(name) ==
    CASE name = "void" -> TypeEntry(TypeTableEntryIdVoid, "none", 0, <<>>, FALSE, FALSE)
      [] name = "unreachable" -> TypeEntry(TypeTableEntryIdUnreachable, "none", 0, <<>>, FALSE, FALSE)
      [] name = "bool" -> TypeEntry(TypeTableEntryIdBool, "none", 0, <<>>, FALSE, FALSE)
      [] name = "u8" -> TypeEntry(TypeTableEntryIdInt, "none", 0, <<>>, FALSE, FALSE)
      [] name = "i8" -> TypeEntry(TypeTableEntryIdInt, "none", 0, <<>>, TRUE, FALSE)
      [] name = "isize" -> TypeEntry(TypeTableEntryIdInt, "none", 0, <<>>, TRUE, FALSE)
      [] name \in {"&u8", "&const u8"} ->
            TypeEntry(TypeTableEntryIdPointer, "u8", 0, <<>>, FALSE, FALSE)
      [] name = "[N]u8" -> TypeEntry(TypeTableEntryIdArray, "u8", ArrayLen, <<>>, FALSE, FALSE)
      [] name = "[]u8" -> TypeEntry(TypeTableEntryIdStruct, "none", 0, <<"&u8", "isize">>, FALSE, TRUE)
      [] name = "Foo" -> TypeEntry(TypeTableEntryIdStruct, "none", 0, <<"u8", "isize">>, FALSE, FALSE)
      [] name = "[0]u8" -> TypeEntry(TypeTableEntryIdArray, "u8", 0, <<>>, FALSE, FALSE)
      [] name \in {"Bar", "Baz"} ->
            TypeEntry(TypeTableEntryIdStruct, "none", 0, <<"u8", "isize">>, FALSE, FALSE)
      [] name = "Pair" -> TypeEntry(TypeTableEntryIdStruct, "none", 0, <<"Foo", "isize">>, FALSE, FALSE)
      [] name = "?u8" -> TypeEntry(TypeTableEntryIdMaybe, "u8", 0, <<>>, FALSE, FALSE)
      [] name = "En" -> TypeEntry(TypeTableEntryIdEnum, "none", 0, <<"u8", "u8">>, FALSE, FALSE)
      [] name = "?Foo" -> TypeEntry(TypeTableEntryIdMaybe, "Foo", 0, <<>>, FALSE, FALSE)

\* the source fields (TypeStructField) of Bar {a: u8, v: void, b: isize} and of
\* Baz {a: u8, z: [0]u8, b: isize}; a zero-sized field has no gen_index
TypeStructField(name, type_entry, gen_index) ==
    [name |-> name, type_entry |-> type_entry, gen_index |-> gen_index]

structure_fields(name) ==
    <<TypeStructField("a", "u8", 0),
      IF name = "Bar" THEN TypeStructField("v", "void", -1)
      ELSE TypeStructField("z", "[0]u8", -1),
      TypeStructField("b", "isize", 1)>>

\* a Maybe is the two-field struct {child, bool}
struct_fields(name) ==
    IF type_table(name).id = TypeTableEntryIdMaybe
    THEN <<type_table(name).child, "bool">>
    ELSE type_table(name).fields

AlignUp(x, a) == ((x + a - 1) \div a) * a

Max(x, y) == IF x >= y THEN x ELSE y

RECURSIVE size_in_bits(_)
RECURSIVE align_in_bits(_)
RECURSIVE StructEnd(_, _)

\* the byte after field i of struct `name` in the target's struct layout
struct_end_of(name, i, f) ==
    AlignUp(StructEnd(name, i - 1), align_in_bits(f) \div 8) + size_in_bits(f) \div 8

StructEnd(name, i) == IF i = 0 THEN 0 ELSE struct_end_of(name, i, struct_fields(name)[i])

size_of_entry(name, e) ==
    CASE e.id \in {TypeTableEntryIdVoid, TypeTableEntryIdUnreachable} -> 0
      [] e.id = TypeTableEntryIdBool -> 8
      [] e.id = TypeTableEntryIdInt -> IF name = "isize" THEN PointerSizeBytes * 8 ELSE 8
      [] e.id = TypeTableEntryIdPointer -> PointerSizeBytes * 8
      [] e.id = TypeTableEntryIdArray -> e.len * size_in_bits(e.child)
      [] OTHER -> 8 * AlignUp(StructEnd(name, Len(struct_fields(name))), align_in_bits(name) \div 8)

size_in_bits(name) == size_of_entry(name, type_table(name))

align_of_fields(f) == Max(align_in_bits(f[1]), align_in_bits(f[2]))

align_of_entry(name, e) ==
    CASE e.id \in {TypeTableEntryIdVoid, TypeTableEntryIdUnreachable} -> 8
      [] e.id = TypeTableEntryIdBool -> 8
      [] e.id = TypeTableEntryIdInt -> IF name = "isize" THEN PointerSizeBytes * 8 ELSE 8
      [] e.id = TypeTableEntryIdPointer -> PointerSizeBytes * 8
      [] e.id = TypeTableEntryIdArray -> align_in_bits(e.child)
      [] OTHER -> align_of_fields(struct_fields(name))

align_in_bits(name) == align_of_entry(name, type_table(name))

\* data.pointer.is_const of a pointer type
pointer_is_const(name) == name = "&const u8"

\* data.enumeration of an enum type; En is enum {One: u8, Three: void}, in
\* LLIR the struct of its tag and its union
enumeration(name) == [tag_type |-> "u8", gen_field_count |-> IF name = "En" THEN 1 ELSE 0]

handle_is_ptr(name) ==
    \/ type_table(name).id \in {TypeTableEntryIdStruct, TypeTableEntryIdMaybe, TypeTableEntryIdArray}
    \/ type_table(name).id = TypeTableEntryIdEnum /\ enumeration(name).gen_field_count # 0

(***************************************************************************)
(* LLIR types and values.  An LLIR type is a type name under p levels of   *)
(* pointer; a value (LLVMValueRef) is a constant, the result of an         *)
(* instruction, a parameter of the function, or the null reference.        *)
(***************************************************************************)
LLType(t, p) == [t |-> t, p |-> p]
LLVMPointerType(ty) == LLType(ty.t, ty.p + 1)
LLVMGetElementType(ty) == LLType(ty.t, ty.p - 1)
LLVMInt1Type == LLType("bool", 0)
LLVMInt8Type == LLType("u8", 0)
LLVMVoidType == LLType("void", 0)

\* an LLIR integer type has a width and no signedness: i8 and u8 are one type
type_ref(name) ==
    IF type_table(name).id = TypeTableEntryIdPointer
    THEN LLType(type_table(name).child, 1)
    ELSE IF name = "i8" THEN LLType("u8", 0)
    ELSE LLType(name, 0)

IsAggregate(ty) == ty.p = 0 /\ handle_is_ptr(ty.t)
IsStructType(ty) ==
    ty.p = 0 /\ type_table(ty.t).id \in {TypeTableEntryIdStruct, TypeTableEntryIdMaybe,
                                        TypeTableEntryIdEnum}
IsArrayType(ty) == ty.p = 0 /\ type_table(ty.t).id = TypeTableEntryIdArray

SizeOf(ty) == IF ty.p > 0 THEN PointerSizeBytes ELSE size_in_bits(ty.t) \div 8
AlignOf(ty) == IF ty.p > 0 THEN PointerSizeBytes ELSE align_in_bits(ty.t) \div 8

\* field i (from 0) of a struct type: its LLIR type and its byte offset
FieldType(ty, i) == type_ref(struct_fields(ty.t)[i + 1])
FieldOffset(ty, i) == StructEnd(ty.t, i + 1) - SizeOf(FieldType(ty, i))

Val(k, n, ty) == [k |-> k, n |-> n, ty |-> ty]
nullptr == Val("nullptr", 0, LLVMVoidType)
LLVMConstInt(ty, n) == Val("const", n, ty)
LLVMConstNull(ty) == Val("const", 0, ty)
LLVMConstAllOnes(ty) == Val("const", 1, ty)
LLVMGetParam(index, ty) == Val("param", index, ty)
LLVMTypeOf(v) == v.ty


(***************************************************************************)
(* The annotated AST.  Every node is a record of one shape:                *)
(*   type   the NodeType,            id     the node's identity (position) *)
(*   ty     the resolved type_entry, name   symbol, callee, field, bin_op  *)
(*   name2  the index variable (for) value  literal value, gen_index       *)
(*   kids   the child nodes,         ctx    the node's block_context       *)
(* the two implicit casts the analyzer resolved on it, and the two facts   *)
(* the analyzer leaves on a while loop.                                    *)
(***************************************************************************)
CastOpNothing == "CastOpNothing"
CastOpMaybeWrap == "CastOpMaybeWrap"
CastOpIntWidenOrShorten == "CastOpIntWidenOrShorten"

Cast(op, after_type, slot) == [op |-> op, after_type |-> after_type, slot |-> slot]
NoCast == Cast(CastOpNothing, "none", 0)

Node(type, id, ty, name, name2, value, kids, ctx) ==
    [type |-> type, id |-> id, ty |-> ty, name |-> name, name2 |-> name2, value |-> value,
     kids |-> kids, ctx |-> ctx, implicit_cast |-> NoCast, implicit_maybe_cast |-> NoCast,
     condition_always_true |-> FALSE, contains_break |-> FALSE]

\* the AstNode pointer that is null
NullNode == Node("nullptr", 0, "void", "", "", 0, <<>>, 0)

get_expr_type(node) ==
    IF node.implicit_maybe_cast.after_type # "none" THEN node.implicit_maybe_cast.after_type
    ELSE IF node.implicit_cast.after_type # "none" THEN node.implicit_cast.after_type
    ELSE node.ty

is_node_void_expr(node) ==
    node.type = "ContainerInitExpr" /\ type_table(node.ty).id = TypeTableEntryIdVoid

(***************************************************************************)
(* The LLIR builder.  g.blocks are the function's basic blocks in the      *)
(* order they were appended, a block reference is its index (0: null); an  *)
(* instruction is appended to g.insert_block and carries the debug         *)
(* location current at that moment.  Handing the null reference to the     *)
(* builder as an operand or as a branch target dereferences a null         *)
(* pointer: g.crashed.                                                     *)
(***************************************************************************)
R(gg, val) == [g |-> gg, val |-> val]

Instr(op, id, ty, iargs, blocks, name, n, dbg) ==
    [op |-> op, id |-> id, ty |-> ty, args |-> iargs, blocks |-> blocks,
     name |-> name, n |-> n, dbg |-> dbg]

add_debug_source_node(gg, node) ==
    IF gg.cur_block_context = 0 THEN gg
    ELSE [gg EXCEPT !.debug_loc = <<node.id, gg.cur_block_context>>]

LLVMAppendBasicBlock(gg, name) ==
    R([gg EXCEPT !.blocks = Append(@, [name |-> name, instrs |-> <<>>])], Len(gg.blocks) + 1)

LLVMPositionBuilderAtEnd(gg, bb) ==
    [gg EXCEPT !.insert_block = bb, !.crashed = @ \/ bb = 0]

LLVMGetInsertBlock(gg) == gg.insert_block

Emit(gg, op, ty, iargs, blocks, name, n) ==
    LET ins == Instr(op, gg.next_id, ty, iargs, blocks, name, n, gg.debug_loc)
        bad == \/ gg.insert_block = 0
               \/ \E i \in 1 .. Len(iargs) : iargs[i].k = "nullptr"
               \/ \E i \in 1 .. Len(blocks) : blocks[i] = 0
    IN IF bad
       THEN R([gg EXCEPT !.crashed = TRUE], nullptr)
       ELSE R([gg EXCEPT !.blocks[gg.insert_block].instrs = Append(@, ins),
                         !.next_id = @ + 1],
              Val("inst", ins.id, ty))

LLVMBuildAlloca(gg, ty, align) == Emit(gg, "alloca", LLVMPointerType(ty), <<>>, <<>>, "", align)

LLVMBuildLoad(gg, ptr) ==
    Emit(gg, "load", LLVMGetElementType(LLVMTypeOf(ptr)), <<ptr>>, <<>>, "", 0)

LLVMBuildStore(gg, val, ptr) == Emit(gg, "store", LLVMVoidType, <<val, ptr>>, <<>>, "", 0)

\* an index that is not one of the struct's is an invalid index for the type
LLVMBuildStructGEP(gg, ptr, idx) ==
    IF /\ ptr.k # "nullptr" /\ ptr.ty.p = 1 /\ IsStructType(LLVMGetElementType(ptr.ty))
       /\ idx \in 0 .. Len(struct_fields(ptr.ty.t)) - 1
    THEN Emit(gg, "structgep", LLVMPointerType(FieldType(LLVMGetElementType(ptr.ty), idx)),
              <<ptr>>, <<>>, "", idx)
    ELSE R([gg EXCEPT !.crashed = TRUE], nullptr)

\* two indices step into an array, one index steps over the pointee
LLVMBuildInBoundsGEP(gg, ptr, indices) ==
    IF Len(indices) = 2
    THEN IF ptr.k # "nullptr" /\ ptr.ty.p = 1 /\ IsArrayType(LLVMGetElementType(ptr.ty))
         THEN Emit(gg, "gep", LLVMPointerType(type_ref(type_table(ptr.ty.t).child)),
                   <<ptr>> \o indices, <<>>, "", 0)
         ELSE R([gg EXCEPT !.crashed = TRUE], nullptr)
    ELSE Emit(gg, "gep", LLVMTypeOf(ptr), <<ptr>> \o indices, <<>>, "", 0)

LLVMBuildBitCast(gg, val, ty) == Emit(gg, "bitcast", ty, <<val>>, <<>>, "", 0)

LLVMBuildSExt(gg, val, ty) == Emit(gg, "sext", ty, <<val>>, <<>>, "", 0)

LLVMBuildZExt(gg, val, ty) == Emit(gg, "zext", ty, <<val>>, <<>>, "", 0)

LLVMBuildTrunc(gg, val, ty) == Emit(gg, "trunc", ty, <<val>>, <<>>, "", 0)

LLVMBuildAdd(gg, lhs, rhs) == Emit(gg, "add", LLVMTypeOf(lhs), <<lhs, rhs>>, <<>>, "", 0)

LLVMBuildSub(gg, lhs, rhs) == Emit(gg, "sub", LLVMTypeOf(lhs), <<lhs, rhs>>, <<>>, "", 0)

LLVMBuildICmp(gg, pred, lhs, rhs) == Emit(gg, "icmp", LLVMInt1Type, <<lhs, rhs>>, <<>>, pred, 0)

LLVMBuildBr(gg, dest) == Emit(gg, "br", LLVMVoidType, <<>>, <<dest>>, "", 0)

LLVMBuildCondBr(gg, cond, then_block, else_block) ==
    Emit(gg, "condbr", LLVMVoidType, <<cond>>, <<then_block, else_block>>, "", 0)

LLVMBuildPhi(gg, ty) == Emit(gg, "phi", ty, <<>>, <<>>, "", 0)

\* the phi is the instruction built last in the insertion block
LLVMAddIncoming(gg, phi, incoming_values, incoming_blocks) ==
    IF phi.k = "nullptr" THEN [gg EXCEPT !.crashed = TRUE]
    ELSE LET b == gg.insert_block
             k == Len(gg.blocks[b].instrs) IN
         [gg EXCEPT !.blocks[b].instrs[k].args = incoming_values,
                    !.blocks[b].instrs[k].blocks = incoming_blocks,
                    !.crashed = @ \/ \E i \in 1 .. Len(incoming_values) :
                                        incoming_values[i].k = "nullptr"]

\* LLVMBuildRet of the null reference builds `ret void`
LLVMBuildRet(gg, val) ==
    IF val.k = "nullptr"
    THEN Emit(gg, "ret", LLVMVoidType, <<>>, <<>>, "", 0)
    ELSE Emit(gg, "ret", LLVMVoidType, <<val>>, <<>>, "", 0)

LLVMBuildRetVoid(gg) == Emit(gg, "ret", LLVMVoidType, <<>>, <<>>, "", 0)

LLVMBuildUnreachable(gg) == Emit(gg, "unreachable", LLVMVoidType, <<>>, <<>>, "", 0)

LLVMBuildCall(gg, fn_name, ret_ty, params) == Emit(gg, "call", ret_ty, params, <<>>, fn_name, 0)

\* the variables of the block contexts, and the module's in the root context
find_variable(gg, name) ==
    LET all == UNION {{gg.all_block_contexts[c].variable_list[i] :
                          i \in 1 .. Len(gg.all_block_contexts[c].variable_list)} :
                      c \in 1 .. Len(gg.all_block_contexts)}
               \cup {gg.global_vars[i] : i \in 1 .. Len(gg.global_vars)}
    IN CHOOSE v \in all : v.name = name

\* the functions the compiled programs call: print(u8) and the noreturn abort()
\* print(u8), abort(), put(void, u8) and the variadic printf(&u8, ...)
fn_table(name) ==
    CASE name = "print" ->
            [return_type |-> "void", src_param_count |-> 1, is_var_args |-> FALSE]
      [] name = "abort" ->
            [return_type |-> "unreachable", src_param_count |-> 0, is_var_args |-> FALSE]
      [] name = "put" ->
            [return_type |-> "void", src_param_count |-> 2, is_var_args |-> FALSE]
      [] name = "printf" ->
            [return_type |-> "void", src_param_count |-> 1, is_var_args |-> TRUE]


(***************************************************************************)
(* The lowering handlers.  Each takes the CodeGen object and returns it,   *)
(* changed, with the LLVMValueRef the handler returns: R(g, val).          *)
(***************************************************************************)
\* A handler's local that is used again later is the first parameter of the
\* operator that continues the handler from there.  A null dereference ends
\* the compiler: once g.crashed, no further call is made.
RECURSIVE gen_expr(_, _)
RECURSIVE gen_field_access_expr(_, _, _)
RECURSIVE gen_assign_raw(_, _, _, _, _, _, _)

\* LLVMBuildLoad(builder, ptr), ptr being the value just built
load_of(ptr) == IF ptr.g.crashed THEN ptr ELSE LLVMBuildLoad(ptr.g, ptr.val)

\* the same, after add_debug_source_node(g, node)
load_of_at(ptr, node) ==
    IF ptr.g.crashed THEN ptr
    ELSE LLVMBuildLoad(add_debug_source_node(ptr.g, node), ptr.val)

with_type_entry(r, type_entry) ==
    IF r.g.crashed THEN r ELSE [g |-> r.g, val |-> r.val, type_entry |-> type_entry]

\* node.ty of a number literal is codegen_num_lit->resolved_type
gen_number_literal_raw(gg, source_node) ==
    R(gg, LLVMConstInt(type_ref(source_node.ty), source_node.value))

gen_number_literal(gg, node) == gen_number_literal_raw(gg, node)

gen_symbol_value(gg, node, variable) ==
    IF size_in_bits(variable.type) = 0 THEN R(gg, nullptr)
    ELSE IF variable.is_ptr
    THEN IF type_table(variable.type).id = TypeTableEntryIdArray
         THEN R(gg, gg.value_ref[variable.name])
         ELSE IF type_table(variable.type).id \in {TypeTableEntryIdStruct, TypeTableEntryIdMaybe}
         THEN R(gg, gg.value_ref[variable.name])
         ELSE LLVMBuildLoad(add_debug_source_node(gg, node), gg.value_ref[variable.name])
    ELSE R(gg, gg.value_ref[variable.name])

gen_symbol(gg, node) == gen_symbol_value(gg, node, find_variable(gg, node.name))

RECURSIVE gen_fn_call_params(_, _, _, _)
gen_fn_call_param(param_value, node, i, gen_param_values) ==
    IF param_value.g.crashed THEN param_value
    ELSE gen_fn_call_params(param_value.g, node, i + 1,
             IF fn_table(node.name).is_var_args \/ size_in_bits(get_expr_type(node.kids[i])) > 0
             THEN Append(gen_param_values, param_value.val)
             ELSE gen_param_values)

gen_fn_call_params(gg, node, i, gen_param_values) ==
    IF i > Len(node.kids) THEN [g |-> gg, gen_param_values |-> gen_param_values]
    ELSE gen_fn_call_param(gen_expr(gg, node.kids[i]), node, i, gen_param_values)

gen_fn_call_expr_call(ps, node, return_type) ==
    IF ps.g.crashed THEN ps
    ELSE IF type_table(return_type).id = TypeTableEntryIdUnreachable
    THEN LLVMBuildUnreachable(
             LLVMBuildCall(add_debug_source_node(ps.g, node), node.name,
                           type_ref(return_type), ps.gen_param_values).g)
    ELSE LLVMBuildCall(add_debug_source_node(ps.g, node), node.name,
                       type_ref(return_type), ps.gen_param_values)

\* ---- gen_enum_value_expr: node.value is the variant's tag value, the
\* temporary of the enum value is the struct value registered for the node
gen_enum_value_expr_assign(bitcasted_union_field_ptr, node, arg_node, new_union_val) ==
    IF bitcasted_union_field_ptr.g.crashed THEN bitcasted_union_field_ptr
    ELSE R(gen_assign_raw(bitcasted_union_field_ptr.g, arg_node, "BinOpTypeAssign",
                          bitcasted_union_field_ptr.val, new_union_val,
                          get_expr_type(arg_node), get_expr_type(arg_node)).g,
           bitcasted_union_field_ptr.g.struct_val_ptr[node.id])

gen_enum_value_expr_bitcast(union_field_ptr, node, arg_node, new_union_val) ==
    IF union_field_ptr.g.crashed THEN union_field_ptr
    ELSE gen_enum_value_expr_assign(
             LLVMBuildBitCast(union_field_ptr.g, union_field_ptr.val,
                              LLVMPointerType(type_ref(get_expr_type(arg_node)))),
             node, arg_node, new_union_val)

\* arg_node_type is void when there is no argument node
gen_enum_value_expr_union(tag_store, node, arg_node, new_union_val) ==
    IF tag_store.g.crashed THEN tag_store
    ELSE IF arg_node # NullNode
            /\ type_table(get_expr_type(arg_node)).id # TypeTableEntryIdVoid
    THEN gen_enum_value_expr_bitcast(
             LLVMBuildStructGEP(tag_store.g, tag_store.g.struct_val_ptr[node.id], 1),
             node, arg_node, new_union_val)
    ELSE R(tag_store.g, tag_store.g.struct_val_ptr[node.id])

gen_enum_value_expr_tag_store(tag_field_ptr, tag_value) ==
    IF tag_field_ptr.g.crashed THEN tag_field_ptr
    ELSE LLVMBuildStore(tag_field_ptr.g, tag_value, tag_field_ptr.val)

gen_enum_value_expr_tag(new_union_val, node, enum_type, arg_node) ==
    IF new_union_val.g.crashed THEN new_union_val
    ELSE gen_enum_value_expr_union(
             gen_enum_value_expr_tag_store(
                 LLVMBuildStructGEP(add_debug_source_node(new_union_val.g, node),
                                    new_union_val.g.struct_val_ptr[node.id], 0),
                 LLVMConstInt(type_ref(enumeration(enum_type).tag_type), node.value)),
             node, arg_node, new_union_val.val)

\* the argument is lowered when new_union_val is initialized, and again when
\* there is an argument node
gen_enum_value_expr_arg(new_union_val, arg_node) ==
    IF new_union_val.g.crashed THEN new_union_val
    ELSE IF arg_node # NullNode THEN gen_expr(new_union_val.g, arg_node)
    ELSE new_union_val

gen_enum_value_expr(gg, node, enum_type, arg_node) ==
    IF enumeration(enum_type).gen_field_count = 0
    THEN R(gg, LLVMConstInt(type_ref(enumeration(enum_type).tag_type), node.value))
    ELSE gen_enum_value_expr_tag(gen_enum_value_expr_arg(gen_expr(gg, arg_node), arg_node),
                                 node, enum_type, arg_node)

\* node.name2 names the enum type when the callee is a field of a type
gen_fn_call_expr(gg, node) ==
    IF node.name2 # ""
    THEN gen_enum_value_expr(gg, node, node.name2,
                             IF Len(node.kids) = 1 THEN node.kids[1] ELSE NullNode)
    ELSE gen_fn_call_expr_call(gen_fn_call_params(gg, node, 1, <<>>), node,
                               fn_table(node.name).return_type)

gen_array_base_ptr(gg, node) ==
    IF node.type = "FieldAccessExpr"
    THEN IF type_table(get_expr_type(node)).id = TypeTableEntryIdPointer
         THEN load_of_at(gen_field_access_expr(gg, node, TRUE), node)
         ELSE gen_field_access_expr(gg, node, TRUE)
    ELSE gen_expr(gg, node)

gen_array_elem_ptr_of(ptr, subscript_value) ==
    IF ptr.g.crashed THEN ptr
    ELSE LLVMBuildInBoundsGEP(ptr.g, ptr.val, <<subscript_value>>)

gen_array_elem_ptr(gg, source_node, array_ptr, array_type, subscript_value) ==
    IF size_in_bits(array_type) = 0 THEN R(gg, nullptr)
    ELSE IF type_table(array_type).id = TypeTableEntryIdArray
    THEN LLVMBuildInBoundsGEP(add_debug_source_node(gg, source_node), array_ptr,
                              <<LLVMConstNull(type_ref("isize")), subscript_value>>)
    ELSE IF type_table(array_type).id = TypeTableEntryIdPointer
    THEN LLVMBuildInBoundsGEP(add_debug_source_node(gg, source_node), array_ptr,
                              <<subscript_value>>)
    ELSE gen_array_elem_ptr_of(
             load_of(LLVMBuildStructGEP(add_debug_source_node(gg, source_node), array_ptr, 0)),
             subscript_value)

gen_array_ptr_elem(subscript_value, array_ptr, node) ==
    IF subscript_value.g.crashed THEN subscript_value
    ELSE gen_array_elem_ptr(subscript_value.g, node, array_ptr.val,
                            get_expr_type(node.kids[1]), subscript_value.val)

gen_array_ptr_subscript(array_ptr, node) ==
    IF array_ptr.g.crashed THEN array_ptr
    ELSE gen_array_ptr_elem(gen_expr(array_ptr.g, node.kids[2]), array_ptr, node)

gen_array_ptr(gg, node) == gen_array_ptr_subscript(gen_array_base_ptr(gg, node.kids[1]), node)

\* the struct type a field access selects from: the base's type, or its pointee
field_struct_type(node) ==
    IF type_table(get_expr_type(node.kids[1])).id = TypeTableEntryIdPointer
    THEN type_table(get_expr_type(node.kids[1])).child
    ELSE get_expr_type(node.kids[1])

gen_field_ptr_symbol(gg, node, var) ==
    IF var.is_ptr /\ type_table(var.type).id = TypeTableEntryIdPointer
    THEN LLVMBuildLoad(add_debug_source_node(gg, node), gg.value_ref[var.name])
    ELSE R(gg, gg.value_ref[var.name])

gen_field_ptr_struct_ptr(gg, node, struct_expr_node) ==
    IF struct_expr_node.type = "Symbol"
    THEN gen_field_ptr_symbol(gg, node, find_variable(gg, struct_expr_node.name))
    ELSE IF struct_expr_node.type = "FieldAccessExpr"
    THEN IF type_table(get_expr_type(struct_expr_node)).id = TypeTableEntryIdPointer
         THEN load_of_at(gen_field_access_expr(gg, struct_expr_node, TRUE), node)
         ELSE gen_field_access_expr(gg, struct_expr_node, TRUE)
    ELSE gen_expr(gg, struct_expr_node)

gen_field_ptr_gep(struct_ptr, node) ==
    IF struct_ptr.g.crashed THEN struct_ptr
    ELSE with_type_entry(
             LLVMBuildStructGEP(add_debug_source_node(struct_ptr.g, node), struct_ptr.val,
                                node.value),
             struct_fields(field_struct_type(node))[node.value + 1])

\* node.value is the field's gen_field_index
gen_field_ptr(gg, node) ==
    gen_field_ptr_gep(gen_field_ptr_struct_ptr(gg, node, node.kids[1]), node)

gen_field_access_expr_array_ptr(array_val, node) ==
    IF array_val.g.crashed THEN array_val
    ELSE LLVMBuildInBoundsGEP(add_debug_source_node(array_val.g, node), array_val.val,
             <<LLVMConstNull(type_ref("isize")), LLVMConstNull(type_ref("isize"))>>)

gen_field_access_expr_field(ptr, node, is_lvalue) ==
    IF ptr.g.crashed THEN ptr
    ELSE IF is_lvalue THEN R(ptr.g, ptr.val)
    ELSE LLVMBuildLoad(add_debug_source_node(ptr.g, node), ptr.val)

gen_field_access_expr(gg, node, is_lvalue) ==
    IF type_table(get_expr_type(node.kids[1])).id = TypeTableEntryIdArray
    THEN IF node.name = "len"
         THEN R(gg, LLVMConstInt(type_ref("isize"),
                                 type_table(get_expr_type(node.kids[1])).len))
         ELSE gen_field_access_expr_array_ptr(gen_expr(gg, node.kids[1]), node)
    ELSE gen_field_access_expr_field(gen_field_ptr(gg, node), node, is_lvalue)

\* the element type of an array, a pointer or a slice
child_type_of(array_type) ==
    IF type_table(array_type).id = TypeTableEntryIdStruct
    THEN type_table(type_table(array_type).fields[1]).child
    ELSE type_table(array_type).child

gen_array_access_expr_load(ptr, node, is_lvalue) ==
    IF ptr.g.crashed THEN ptr
    ELSE IF is_lvalue \/ ptr.val.k = "nullptr"
            \/ handle_is_ptr(child_type_of(get_expr_type(node.kids[1])))
    THEN ptr
    ELSE LLVMBuildLoad(add_debug_source_node(ptr.g, node), ptr.val)

gen_array_access_expr(gg, node, is_lvalue) ==
    gen_array_access_expr_load(gen_array_ptr(gg, node), node, is_lvalue)

gen_lvalue(gg, expr_node, node) ==
    IF node.type = "Symbol"
    THEN [g |-> gg, val |-> gg.value_ref[node.name],
          type_entry |-> find_variable(gg, node.name).type]
    ELSE IF node.type = "ArrayAccessExpr"
    THEN with_type_entry(gen_array_ptr(gg, node), child_type_of(get_expr_type(node.kids[1])))
    ELSE gen_field_ptr(gg, node)

\* the slice temporary's two stores: ptr = the start pointer, len = end - start
gen_slice_store_len(len_value, len_field_ptr, tmp_struct_ptr) ==
    IF len_value.g.crashed THEN len_value
    ELSE R(LLVMBuildStore(len_value.g, len_value.val, len_field_ptr.val).g, tmp_struct_ptr)

\* mutant: the stored len is end + start
gen_slice_len_sum(len_field_ptr, tmp_struct_ptr, start_val, end_val) ==
    IF len_field_ptr.g.crashed THEN len_field_ptr
    ELSE gen_slice_store_len(LLVMBuildAdd(len_field_ptr.g, end_val, start_val),
                             len_field_ptr, tmp_struct_ptr)

gen_slice_len(len_field_ptr, tmp_struct_ptr, start_val, end_val) ==
    IF len_field_ptr.g.crashed THEN len_field_ptr
    ELSE gen_slice_store_len(LLVMBuildSub(len_field_ptr.g, end_val, start_val),
                             len_field_ptr, tmp_struct_ptr)

gen_slice_store_ptr(slice_start_ptr, ptr_field_ptr, tmp_struct_ptr, start_val, end_val) ==
    IF slice_start_ptr.g.crashed THEN slice_start_ptr
    ELSE gen_slice_len(
             LLVMBuildStructGEP(
                 LLVMBuildStore(slice_start_ptr.g, slice_start_ptr.val, ptr_field_ptr.val).g,
                 tmp_struct_ptr, 1),
             tmp_struct_ptr, start_val, end_val)

gen_slice_ptr(ptr_field_ptr, tmp_struct_ptr, base_ptr, indices, start_val, end_val) ==
    IF ptr_field_ptr.g.crashed THEN ptr_field_ptr
    ELSE gen_slice_store_ptr(LLVMBuildInBoundsGEP(ptr_field_ptr.g, base_ptr, indices),
                             ptr_field_ptr, tmp_struct_ptr, start_val, end_val)

gen_slice_stores(gg, node, tmp_struct_ptr, base_ptr, indices, start_val, end_val) ==
    gen_slice_ptr(LLVMBuildStructGEP(gg, tmp_struct_ptr, 0), tmp_struct_ptr, base_ptr, indices,
                  start_val, end_val)

gen_slice_expr_src_ptr(src_ptr, node, tmp_struct_ptr, start_val, end_val) ==
    IF src_ptr.g.crashed THEN src_ptr
    ELSE gen_slice_stores(src_ptr.g, node, tmp_struct_ptr, src_ptr.val, <<start_val.val>>,
                          start_val.val, end_val.val)

gen_slice_expr_end(end_val, start_val, array_ptr, node, tmp_struct_ptr, array_type) ==
    IF end_val.g.crashed THEN end_val
    ELSE IF type_table(array_type).id = TypeTableEntryIdArray
    THEN gen_slice_stores(add_debug_source_node(end_val.g, node), node, tmp_struct_ptr,
             array_ptr.val, <<LLVMConstNull(type_ref("isize")), start_val.val>>,
             start_val.val, end_val.val)
    ELSE IF type_table(array_type).id = TypeTableEntryIdPointer
    THEN gen_slice_stores(add_debug_source_node(end_val.g, node), node, tmp_struct_ptr,
             array_ptr.val, <<start_val.val>>, start_val.val, end_val.val)
    ELSE gen_slice_expr_src_ptr(
             load_of(LLVMBuildStructGEP(add_debug_source_node(end_val.g, node),
                                        array_ptr.val, 0)),
             node, tmp_struct_ptr, start_val, end_val)

\* without an end expression the end is the array's length or the slice's len
gen_slice_expr_start(start_val, array_ptr, node, tmp_struct_ptr, array_type) ==
    IF start_val.g.crashed THEN start_val
    ELSE gen_slice_expr_end(
             IF Len(node.kids) = 3 THEN gen_expr(start_val.g, node.kids[3])
             ELSE IF type_table(array_type).id = TypeTableEntryIdArray
             THEN R(start_val.g, LLVMConstInt(type_ref("isize"), type_table(array_type).len))
             ELSE load_of(LLVMBuildStructGEP(add_debug_source_node(start_val.g, node),
                                             array_ptr.val, 1)),
             start_val, array_ptr, node, tmp_struct_ptr, array_type)

gen_slice_expr_array_ptr(array_ptr, node, tmp_struct_ptr) ==
    IF array_ptr.g.crashed THEN array_ptr
    ELSE gen_slice_expr_start(gen_expr(array_ptr.g, node.kids[2]), array_ptr, node,
                              tmp_struct_ptr, get_expr_type(node.kids[1]))

gen_slice_expr(gg, node) ==
    gen_slice_expr_array_ptr(gen_array_base_ptr(gg, node.kids[1]), node,
                             gg.struct_val_ptr[node.id])

LLVMInt32Type == LLType("i32", 0)

\* mutant: the byte count is the size in bits
gen_struct_memcpy_call_bits(dest_ptr, src_ptr, type_entry) ==
    IF dest_ptr.g.crashed THEN dest_ptr
    ELSE LLVMBuildCall(dest_ptr.g, "memcpy", LLVMVoidType,
             <<dest_ptr.val, src_ptr.val,
               LLVMConstInt(type_ref("isize"), size_in_bits(type_entry)),
               LLVMConstInt(LLVMInt32Type, align_in_bits(type_entry) \div 8),
               LLVMConstNull(LLVMInt1Type)>>)

gen_struct_memcpy_call(dest_ptr, src_ptr, type_entry) ==
    IF dest_ptr.g.crashed THEN dest_ptr
    ELSE LLVMBuildCall(dest_ptr.g, "memcpy", LLVMVoidType,
             <<dest_ptr.val, src_ptr.val,
               LLVMConstInt(type_ref("isize"), size_in_bits(type_entry) \div 8),
               LLVMConstInt(LLVMInt32Type, align_in_bits(type_entry) \div 8),
               LLVMConstNull(LLVMInt1Type)>>)

gen_struct_memcpy_dest(src_ptr, dest, type_entry) ==
    IF src_ptr.g.crashed THEN src_ptr
    ELSE gen_struct_memcpy_call(
             LLVMBuildBitCast(src_ptr.g, dest, LLVMPointerType(LLVMInt8Type)),
             src_ptr, type_entry)

gen_struct_memcpy(gg, source_node, src, dest, type_entry) ==
    gen_struct_memcpy_dest(
        LLVMBuildBitCast(add_debug_source_node(gg, source_node), src,
                         LLVMPointerType(LLVMInt8Type)),
        dest, type_entry)

gen_arithmetic_bin_op(gg, source_node, val1, val2, op1_type, op2_type, bin_op) ==
    IF bin_op \in {"BinOpTypeAdd", "BinOpTypeAssignPlus"}
    THEN LLVMBuildAdd(add_debug_source_node(gg, source_node), val1, val2)
    ELSE LLVMBuildSub(add_debug_source_node(gg, source_node), val1, val2)

gen_arithmetic_bin_op_expr_op(val2, val1, node) ==
    IF val2.g.crashed THEN val2
    ELSE gen_arithmetic_bin_op(val2.g, node, val1.val, val2.val, get_expr_type(node.kids[1]),
                               get_expr_type(node.kids[2]), node.name)

gen_arithmetic_bin_op_expr_val2(val1, node) ==
    IF val1.g.crashed THEN val1
    ELSE gen_arithmetic_bin_op_expr_op(gen_expr(val1.g, node.kids[2]), val1, node)

gen_arithmetic_bin_op_expr(gg, node) ==
    gen_arithmetic_bin_op_expr_val2(gen_expr(gg, node.kids[1]), node)

gen_assign_raw_store(value, source_node, target_ref) ==
    IF value.g.crashed THEN value
    ELSE LLVMBuildStore(add_debug_source_node(value.g, source_node), value.val, target_ref)

gen_assign_raw_op(left_value, source_node, bin_op, value, op1_type, op2_type) ==
    IF left_value.g.crashed THEN left_value
    ELSE gen_arithmetic_bin_op(left_value.g, source_node, left_value.val, value,
                               op1_type, op2_type, bin_op)

gen_assign_raw(gg, source_node, bin_op, target_ref, value, op1_type, op2_type) ==
    IF handle_is_ptr(op1_type)
    THEN gen_struct_memcpy(gg, source_node, value, target_ref, op1_type)
    ELSE IF bin_op # "BinOpTypeAssign"
    THEN gen_assign_raw_store(
             gen_assign_raw_op(
                 LLVMBuildLoad(add_debug_source_node(gg, source_node.kids[1]), target_ref),
                 source_node, bin_op, value, op1_type, op2_type),
             source_node, target_ref)
    ELSE LLVMBuildStore(add_debug_source_node(gg, source_node), value, target_ref)

gen_assign_expr_raw(value, target_ref, node) ==
    IF value.g.crashed THEN value
    ELSE IF size_in_bits(target_ref.type_entry) = 0 THEN R(value.g, nullptr)
    ELSE gen_assign_raw(value.g, node, node.name, target_ref.val, value.val,
                        target_ref.type_entry, get_expr_type(node.kids[2]))

gen_assign_expr_value(target_ref, node) ==
    IF target_ref.g.crashed THEN target_ref
    ELSE gen_assign_expr_raw(gen_expr(target_ref.g, node.kids[2]), target_ref, node)

gen_assign_expr(gg, node) == gen_assign_expr_value(gen_lvalue(gg, node, node.kids[1]), node)

cmp_op_to_int_predicate(cmp_op, is_signed) ==
    CASE cmp_op = "BinOpTypeCmpEq" -> "LLVMIntEQ"
      [] cmp_op = "BinOpTypeCmpNotEq" -> "LLVMIntNE"
      [] cmp_op = "BinOpTypeCmpLessThan" -> IF is_signed THEN "LLVMIntSLT" ELSE "LLVMIntULT"

gen_cmp_expr_cmp(val2, val1, node) ==
    IF val2.g.crashed THEN val2
    ELSE LLVMBuildICmp(add_debug_source_node(val2.g, node),
             cmp_op_to_int_predicate(node.name,
                                     type_table(get_expr_type(node.kids[1])).is_signed),
             val1.val, val2.val)

gen_cmp_expr_val2(val1, node) ==
    IF val1.g.crashed THEN val1 ELSE gen_cmp_expr_cmp(gen_expr(val1.g, node.kids[2]), val1, node)

gen_cmp_expr(gg, node) == gen_cmp_expr_val2(gen_expr(gg, node.kids[1]), node)

gen_bare_cast_store(maybe_ptr, ptr) ==
    IF maybe_ptr.g.crashed THEN maybe_ptr
    ELSE R(LLVMBuildStore(maybe_ptr.g, LLVMConstAllOnes(LLVMInt1Type), maybe_ptr.val).g, ptr)

gen_bare_cast_assign(val_ptr, ptr, node, expr_val, actual_type, wanted_type) ==
    IF val_ptr.g.crashed THEN val_ptr
    ELSE gen_bare_cast_store(
             LLVMBuildStructGEP(
                 add_debug_source_node(
                     gen_assign_raw(val_ptr.g, node, "BinOpTypeAssign", val_ptr.val, expr_val,
                                    type_table(wanted_type).child, actual_type).g,
                     node),
                 ptr, 1),
             ptr)

\* mutant: a wider target is always zero-extended to
gen_bare_cast_int_zext(gg, node, expr_val, actual_type, wanted_type) ==
    IF size_in_bits(actual_type) = size_in_bits(wanted_type) THEN R(gg, expr_val)
    ELSE IF size_in_bits(actual_type) < size_in_bits(wanted_type)
    THEN LLVMBuildZExt(add_debug_source_node(gg, node), expr_val, type_ref(wanted_type))
    ELSE LLVMBuildTrunc(add_debug_source_node(gg, node), expr_val, type_ref(wanted_type))

\* case CastOpIntWidenOrShorten
gen_bare_cast_int(gg, node, expr_val, actual_type, wanted_type) ==
    IF size_in_bits(actual_type) = size_in_bits(wanted_type) THEN R(gg, expr_val)
    ELSE IF size_in_bits(actual_type) < size_in_bits(wanted_type)
    THEN IF type_table(actual_type).is_signed
         THEN LLVMBuildSExt(add_debug_source_node(gg, node), expr_val, type_ref(wanted_type))
         ELSE LLVMBuildZExt(add_debug_source_node(gg, node), expr_val, type_ref(wanted_type))
    ELSE LLVMBuildTrunc(add_debug_source_node(gg, node), expr_val, type_ref(wanted_type))

gen_bare_cast(gg, node, expr_val, actual_type, wanted_type, cast_node) ==
    IF cast_node.op = CastOpNothing THEN R(gg, expr_val)
    ELSE IF cast_node.op = CastOpIntWidenOrShorten
    THEN gen_bare_cast_int(gg, node, expr_val, actual_type, wanted_type)
    ELSE gen_bare_cast_assign(
             LLVMBuildStructGEP(add_debug_source_node(gg, node), gg.cast_ptr[cast_node.slot], 0),
             gg.cast_ptr[cast_node.slot], node, expr_val, actual_type, wanted_type)

gen_bool_and_expr_phi(phi, val2, val1) ==
    IF phi.g.crashed THEN phi
    ELSE R(LLVMAddIncoming(phi.g, phi.val, <<val1.val, val2.val>>,
                           <<LLVMGetInsertBlock(val1.g), LLVMGetInsertBlock(val2.g)>>),
           phi.val)

gen_bool_and_expr_val2(val2, false_block, val1, node) ==
    IF val2.g.crashed THEN val2
    ELSE gen_bool_and_expr_phi(
             LLVMBuildPhi(
                 add_debug_source_node(
                     LLVMPositionBuilderAtEnd(
                         LLVMBuildBr(add_debug_source_node(val2.g, node), false_block.val).g,
                         false_block.val),
                     node),
                 LLVMInt1Type),
             val2, val1)

\* mutant: the conditional branch's targets are exchanged
gen_bool_and_expr_false_block_swapped(false_block, true_block, val1, node) ==
    IF false_block.g.crashed THEN false_block
    ELSE gen_bool_and_expr_val2(
             gen_expr(LLVMPositionBuilderAtEnd(
                          LLVMBuildCondBr(add_debug_source_node(false_block.g, node), val1.val,
                                          false_block.val, true_block.val).g,
                          true_block.val),
                      node.kids[2]),
             false_block, val1, node)

gen_bool_and_expr_false_block(false_block, true_block, val1, node) ==
    IF false_block.g.crashed THEN false_block
    ELSE gen_bool_and_expr_val2(
             gen_expr(LLVMPositionBuilderAtEnd(
                          LLVMBuildCondBr(add_debug_source_node(false_block.g, node), val1.val,
                                          true_block.val, false_block.val).g,
                          true_block.val),
                      node.kids[2]),
             false_block, val1, node)

gen_bool_and_expr_true_block(true_block, val1, node) ==
    IF true_block.g.crashed THEN true_block
    ELSE gen_bool_and_expr_false_block(LLVMAppendBasicBlock(true_block.g, "BoolAndFalse"),
                                       true_block, val1, node)

gen_bool_and_expr_val1(val1, node) ==
    IF val1.g.crashed THEN val1
    ELSE gen_bool_and_expr_true_block(LLVMAppendBasicBlock(val1.g, "BoolAndTrue"), val1, node)

gen_bool_and_expr(gg, node) == gen_bool_and_expr_val1(gen_expr(gg, node.kids[1]), node)

gen_bool_or_expr_phi(phi, val2, val1) ==
    IF phi.g.crashed THEN phi
    ELSE R(LLVMAddIncoming(phi.g, phi.val, <<val1.val, val2.val>>,
                           <<LLVMGetInsertBlock(val1.g), LLVMGetInsertBlock(val2.g)>>),
           phi.val)

gen_bool_or_expr_val2(val2, true_block, val1, expr_node) ==
    IF val2.g.crashed THEN val2
    ELSE gen_bool_or_expr_phi(
             LLVMBuildPhi(
                 add_debug_source_node(
                     LLVMPositionBuilderAtEnd(
                         LLVMBuildBr(add_debug_source_node(val2.g, expr_node),
                                     true_block.val).g,
                         true_block.val),
                     expr_node),
                 LLVMInt1Type),
             val2, val1)

gen_bool_or_expr_true_block(true_block, false_block, val1, expr_node) ==
    IF true_block.g.crashed THEN true_block
    ELSE gen_bool_or_expr_val2(
             gen_expr(LLVMPositionBuilderAtEnd(
                          LLVMBuildCondBr(add_debug_source_node(true_block.g, expr_node),
                                          val1.val, true_block.val, false_block.val).g,
                          false_block.val),
                      expr_node.kids[2]),
             true_block, val1, expr_node)

gen_bool_or_expr_false_block(false_block, val1, expr_node) ==
    IF false_block.g.crashed THEN false_block
    ELSE gen_bool_or_expr_true_block(LLVMAppendBasicBlock(false_block.g, "BoolOrTrue"),
                                     false_block, val1, expr_node)

gen_bool_or_expr_val1(val1, expr_node) ==
    IF val1.g.crashed THEN val1
    ELSE gen_bool_or_expr_false_block(LLVMAppendBasicBlock(val1.g, "BoolOrFalse"), val1,
                                      expr_node)

gen_bool_or_expr(gg, expr_node) ==
    gen_bool_or_expr_val1(gen_expr(gg, expr_node.kids[1]), expr_node)

gen_unwrap_maybe(gg, node, maybe_struct_ref) ==
    load_of(LLVMBuildStructGEP(add_debug_source_node(gg, node), maybe_struct_ref, 0))

\* a reachable arm ends with a branch to end_block
gen_unwrap_maybe_expr_br(result, node, reachable, end_block) ==
    IF reachable THEN LLVMBuildBr(add_debug_source_node(result.g, node), end_block.val).g
    ELSE result.g

gen_unwrap_maybe_expr_phi(phi, non_null_result, null_result) ==
    IF phi.g.crashed THEN phi
    ELSE R(LLVMAddIncoming(phi.g, phi.val, <<non_null_result.val, null_result.val>>,
               <<LLVMGetInsertBlock(non_null_result.g), LLVMGetInsertBlock(null_result.g)>>),
           phi.val)

gen_unwrap_maybe_expr_end(null_result, non_null_result, end_block, node,
                          non_null_reachable, null_reachable) ==
    IF null_result.g.crashed THEN null_result
    ELSE IF non_null_reachable \/ null_reachable
    THEN IF null_reachable
         THEN gen_unwrap_maybe_expr_phi(
                  LLVMBuildPhi(
                      add_debug_source_node(
                          LLVMPositionBuilderAtEnd(
                              gen_unwrap_maybe_expr_br(null_result, node, null_reachable,
                                                       end_block),
                              end_block.val),
                          node),
                      LLVMTypeOf(non_null_result.val)),
                  non_null_result, null_result)
         ELSE R(LLVMPositionBuilderAtEnd(
                    gen_unwrap_maybe_expr_br(null_result, node, null_reachable, end_block),
                    end_block.val),
                non_null_result.val)
    ELSE R(gen_unwrap_maybe_expr_br(null_result, node, null_reachable, end_block), nullptr)

gen_unwrap_maybe_expr_null(non_null_result, end_block, null_block, node,
                           non_null_reachable, null_reachable) ==
    IF non_null_result.g.crashed THEN non_null_result
    ELSE gen_unwrap_maybe_expr_end(
             gen_expr(LLVMPositionBuilderAtEnd(
                          gen_unwrap_maybe_expr_br(non_null_result, node, non_null_reachable,
                                                   end_block),
                          null_block.val),
                      node.kids[2]),
             non_null_result, end_block, node, non_null_reachable, null_reachable)

gen_unwrap_maybe_expr_non_null(end_block, null_block, non_null_block, cond_value,
                               maybe_struct_ref, node, non_null_reachable, null_reachable) ==
    IF end_block.g.crashed THEN end_block
    ELSE gen_unwrap_maybe_expr_null(
             gen_unwrap_maybe(
                 LLVMPositionBuilderAtEnd(
                     LLVMBuildCondBr(end_block.g, cond_value.val, non_null_block.val,
                                     null_block.val).g,
                     non_null_block.val),
                 node.kids[1], maybe_struct_ref.val),
             end_block, null_block, node, non_null_reachable, null_reachable)

gen_unwrap_maybe_expr_end_block(null_block, non_null_block, cond_value, maybe_struct_ref, node,
                                non_null_reachable, null_reachable) ==
    IF null_block.g.crashed THEN null_block
    ELSE gen_unwrap_maybe_expr_non_null(
             IF non_null_reachable \/ null_reachable
             THEN LLVMAppendBasicBlock(null_block.g, "MaybeEnd")
             ELSE R(null_block.g, 0),
             null_block, non_null_block, cond_value, maybe_struct_ref, node,
             non_null_reachable, null_reachable)

gen_unwrap_maybe_expr_null_block(non_null_block, cond_value, maybe_struct_ref, node) ==
    IF non_null_block.g.crashed THEN non_null_block
    ELSE gen_unwrap_maybe_expr_end_block(
             LLVMAppendBasicBlock(non_null_block.g, "MaybeNull"), non_null_block, cond_value,
             maybe_struct_ref, node,
             type_table(get_expr_type(node.kids[1])).id # TypeTableEntryIdUnreachable,
             type_table(get_expr_type(node.kids[2])).id # TypeTableEntryIdUnreachable)

gen_unwrap_maybe_expr_cond(cond_value, maybe_struct_ref, node) ==
    IF cond_value.g.crashed THEN cond_value
    ELSE gen_unwrap_maybe_expr_null_block(
             LLVMAppendBasicBlock(cond_value.g, "MaybeNonNull"), cond_value, maybe_struct_ref,
             node)

gen_unwrap_maybe_expr_ref(maybe_struct_ref, node) ==
    IF maybe_struct_ref.g.crashed THEN maybe_struct_ref
    ELSE gen_unwrap_maybe_expr_cond(
             load_of(LLVMBuildStructGEP(add_debug_source_node(maybe_struct_ref.g, node),
                                        maybe_struct_ref.val, 1)),
             maybe_struct_ref, node)

gen_unwrap_maybe_expr(gg, node) ==
    gen_unwrap_maybe_expr_ref(gen_expr(gg, node.kids[1]), node)

gen_bin_op_expr(gg, node) ==
    CASE node.name \in {"BinOpTypeAssign", "BinOpTypeAssignPlus"} -> gen_assign_expr(gg, node)
      [] node.name = "BinOpTypeBoolOr" -> gen_bool_or_expr(gg, node)
      [] node.name = "BinOpTypeBoolAnd" -> gen_bool_and_expr(gg, node)
      [] node.name \in {"BinOpTypeCmpEq", "BinOpTypeCmpNotEq", "BinOpTypeCmpLessThan"} ->
            gen_cmp_expr(gg, node)
      [] node.name = "BinOpTypeUnwrapMaybe" -> gen_unwrap_maybe_expr(gg, node)
      [] node.name \in {"BinOpTypeAdd", "BinOpTypeSub"} -> gen_arithmetic_bin_op_expr(gg, node)

gen_return_expr_value(value, node) ==
    IF value.g.crashed THEN value
    ELSE LLVMBuildRet(add_debug_source_node(value.g, node), value.val)

gen_return_expr(gg, node) ==
    IF Len(node.kids) = 1
    THEN gen_return_expr_value(gen_expr(gg, node.kids[1]), node)
    ELSE LLVMBuildRetVoid(add_debug_source_node(gg, node))

\* an arm that can reach EndIf ends with a branch to it
gen_if_bool_expr_raw_br(expr_result, node, endif_block) ==
    IF type_table(get_expr_type(node)).id # TypeTableEntryIdUnreachable
    THEN LLVMBuildBr(expr_result.g, endif_block.val).g
    ELSE expr_result.g

gen_if_bool_expr_raw_phi(phi, then_expr_result, else_expr_result) ==
    IF phi.g.crashed THEN phi
    ELSE R(LLVMAddIncoming(phi.g, phi.val, <<then_expr_result.val, else_expr_result.val>>,
               <<LLVMGetInsertBlock(then_expr_result.g),
                 LLVMGetInsertBlock(else_expr_result.g)>>),
           phi.val)

\* use_expr_value is computed from the type of the then arm alone
gen_if_bool_expr_raw_endif(else_expr_result, then_expr_result, endif_block, then_node,
                           else_node) ==
    IF else_expr_result.g.crashed THEN else_expr_result
    ELSE IF \/ type_table(get_expr_type(then_node)).id # TypeTableEntryIdUnreachable
            \/ type_table(get_expr_type(else_node)).id # TypeTableEntryIdUnreachable
    THEN IF /\ type_table(get_expr_type(then_node)).id # TypeTableEntryIdUnreachable
            /\ type_table(get_expr_type(then_node)).id # TypeTableEntryIdVoid
         THEN gen_if_bool_expr_raw_phi(
                  LLVMBuildPhi(
                      LLVMPositionBuilderAtEnd(
                          gen_if_bool_expr_raw_br(else_expr_result, else_node, endif_block),
                          endif_block.val),
                      LLVMTypeOf(then_expr_result.val)),
                  then_expr_result, else_expr_result)
         ELSE R(LLVMPositionBuilderAtEnd(
                    gen_if_bool_expr_raw_br(else_expr_result, else_node, endif_block),
                    endif_block.val),
                nullptr)
    ELSE R(gen_if_bool_expr_raw_br(else_expr_result, else_node, endif_block), nullptr)

gen_if_bool_expr_raw_else(then_expr_result, endif_block, else_block, then_node, else_node) ==
    IF then_expr_result.g.crashed THEN then_expr_result
    ELSE gen_if_bool_expr_raw_endif(
             gen_expr(LLVMPositionBuilderAtEnd(
                          gen_if_bool_expr_raw_br(then_expr_result, then_node, endif_block),
                          else_block.val),
                      else_node),
             then_expr_result, endif_block, then_node, else_node)

gen_if_bool_expr_raw_then(endif_block, else_block, then_block, cond_value, then_node,
                          else_node) ==
    IF endif_block.g.crashed THEN endif_block
    ELSE gen_if_bool_expr_raw_else(
             gen_expr(LLVMPositionBuilderAtEnd(
                          LLVMBuildCondBr(endif_block.g, cond_value, then_block.val,
                                          else_block.val).g,
                          then_block.val),
                      then_node),
             endif_block, else_block, then_node, else_node)

gen_if_bool_expr_raw_endif_block(else_block, then_block, cond_value, then_node, else_node) ==
    IF else_block.g.crashed THEN else_block
    ELSE gen_if_bool_expr_raw_then(
             IF \/ type_table(get_expr_type(then_node)).id # TypeTableEntryIdUnreachable
                \/ type_table(get_expr_type(else_node)).id # TypeTableEntryIdUnreachable
             THEN LLVMAppendBasicBlock(else_block.g, "EndIf")
             ELSE R(else_block.g, 0),
             else_block, then_block, cond_value, then_node, else_node)

gen_if_bool_expr_raw_else_block(then_block, cond_value, then_node, else_node) ==
    IF then_block.g.crashed THEN then_block
    ELSE gen_if_bool_expr_raw_endif_block(LLVMAppendBasicBlock(then_block.g, "Else"),
                                          then_block, cond_value, then_node, else_node)

\* the if without else
gen_if_bool_expr_raw_no_else_end(then_expr_result, endif_block, then_node) ==
    IF then_expr_result.g.crashed THEN then_expr_result
    ELSE R(LLVMPositionBuilderAtEnd(
               gen_if_bool_expr_raw_br(then_expr_result, then_node, endif_block),
               endif_block.val),
           nullptr)

gen_if_bool_expr_raw_no_else_then(endif_block, then_block, cond_value, then_node) ==
    IF endif_block.g.crashed THEN endif_block
    ELSE gen_if_bool_expr_raw_no_else_end(
             gen_expr(LLVMPositionBuilderAtEnd(
                          LLVMBuildCondBr(endif_block.g, cond_value, then_block.val,
                                          endif_block.val).g,
                          then_block.val),
                      then_node),
             endif_block, then_node)

gen_if_bool_expr_raw_no_else(then_block, cond_value, then_node) ==
    IF then_block.g.crashed THEN then_block
    ELSE gen_if_bool_expr_raw_no_else_then(LLVMAppendBasicBlock(then_block.g, "EndIf"),
                                           then_block, cond_value, then_node)

gen_if_bool_expr_raw(gg, source_node, cond_value, then_node, else_node, has_else) ==
    IF has_else
    THEN gen_if_bool_expr_raw_else_block(LLVMAppendBasicBlock(gg, "Then"), cond_value,
                                         then_node, else_node)
    ELSE gen_if_bool_expr_raw_no_else(LLVMAppendBasicBlock(gg, "Then"), cond_value, then_node)

gen_if_bool_expr_cond(cond_value, node) ==
    IF cond_value.g.crashed THEN cond_value
    ELSE gen_if_bool_expr_raw(cond_value.g, node, cond_value.val, node.kids[2],
                              IF Len(node.kids) = 3 THEN node.kids[3] ELSE node.kids[2],
                              Len(node.kids) = 3)

gen_if_bool_expr(gg, node) == gen_if_bool_expr_cond(gen_expr(gg, node.kids[1]), node)

RECURSIVE gen_block_statements(_, _, _, _)
gen_block_statement(return_value, block_node, i) ==
    IF return_value.g.crashed THEN return_value
    ELSE gen_block_statements(return_value.g, block_node, i + 1, return_value.val)

gen_block_statements(gg, block_node, i, return_value) ==
    IF i > Len(block_node.kids) THEN R(gg, return_value)
    ELSE gen_block_statement(gen_expr(gg, block_node.kids[i]), block_node, i)

gen_block_return(return_value, block_node, implicit_return_type) ==
    IF implicit_return_type # "none"
    THEN IF type_table(implicit_return_type).id = TypeTableEntryIdVoid
         THEN LLVMBuildRetVoid(add_debug_source_node(return_value.g, block_node)).g
         ELSE IF type_table(implicit_return_type).id # TypeTableEntryIdUnreachable
         THEN LLVMBuildRet(add_debug_source_node(return_value.g, block_node),
                           return_value.val).g
         ELSE add_debug_source_node(return_value.g, block_node)
    ELSE return_value.g

\* a block that leaves its own context current
gen_block_end_kept(return_value, old_block_context, block_node, implicit_return_type) ==
    IF return_value.g.crashed THEN return_value
    ELSE R(gen_block_return(return_value, block_node, implicit_return_type), return_value.val)

gen_block_end(return_value, old_block_context, block_node, implicit_return_type) ==
    IF return_value.g.crashed THEN return_value
    ELSE R([gen_block_return(return_value, block_node, implicit_return_type)
               EXCEPT !.cur_block_context = old_block_context],
           return_value.val)

\* return_value is indeterminate before the first statement; every block of
\* the compiled programs has a statement
gen_block(gg, block_node, implicit_return_type) ==
    gen_block_end(
        gen_block_statements([gg EXCEPT !.cur_block_context = block_node.ctx], block_node, 1,
                             nullptr),
        gg.cur_block_context, block_node, implicit_return_type)

gen_null_literal_store(field_ptr, tmp_struct_ptr) ==
    IF field_ptr.g.crashed THEN field_ptr
    ELSE R(LLVMBuildStore(field_ptr.g, LLVMConstNull(LLVMInt1Type), field_ptr.val).g,
           tmp_struct_ptr)

gen_null_literal(gg, node) ==
    gen_null_literal_store(
        LLVMBuildStructGEP(add_debug_source_node(gg, node), gg.struct_val_ptr[node.id], 1),
        gg.struct_val_ptr[node.id])

\* the entries of a struct initializer are its StructValueField nodes; entry i
\* initializes source field i with its one child
RECURSIVE gen_container_init_fields(_, _, _)
gen_container_init_field_assign(value, field_ptr, field_node, type_struct_field) ==
    IF value.g.crashed THEN value.g
    ELSE gen_assign_raw(value.g, field_node, "BinOpTypeAssign", field_ptr.val, value.val,
                        type_struct_field.type_entry, get_expr_type(field_node.kids[1])).g

gen_container_init_field(field_ptr, field_node, type_struct_field) ==
    IF field_ptr.g.crashed THEN field_ptr.g
    ELSE gen_container_init_field_assign(gen_expr(field_ptr.g, field_node.kids[1]), field_ptr,
                                         field_node, type_struct_field)

gen_container_init_fields(gg, node, i) ==
    IF gg.crashed \/ i > Len(node.kids) THEN gg
    ELSE IF type_table(structure_fields(node.ty)[i].type_entry).id = TypeTableEntryIdVoid
    THEN gen_container_init_fields(gg, node, i + 1)
    ELSE gen_container_init_fields(
             gen_container_init_field(
                 LLVMBuildStructGEP(add_debug_source_node(gg, node.kids[i]),
                                    gg.struct_val_ptr[node.id],
                                    structure_fields(node.ty)[i].gen_index),
                 node.kids[i], structure_fields(node.ty)[i]),
             node, i + 1)

gen_container_init_expr(gg, node) ==
    IF type_table(get_expr_type(node)).id = TypeTableEntryIdStruct
    THEN R(gen_container_init_fields(gg, node, 1), gg.struct_val_ptr[node.id])
    ELSE IF type_table(get_expr_type(node)).id = TypeTableEntryIdUnreachable
    THEN LLVMBuildUnreachable(add_debug_source_node(gg, node))
    ELSE R(gg, nullptr)

\* the loop's index variable and its element variable are allocas of the
\* loop's block context
for_index_ptr(gg, node) == gg.value_ref[node.name2]
for_elem_ptr(gg, node) == gg.value_ref[node.name]

store_of(val, ptr) == IF val.g.crashed THEN val.g ELSE LLVMBuildStore(val.g, val.val, ptr).g

\* after the body: the stacks are popped, and a body that can end increments
\* the index and branches back to ForCond
gen_for_expr_incr(body, index_val, cond_block, node) ==
    IF type_table(get_expr_type(node.kids[2])).id # TypeTableEntryIdUnreachable
    THEN LLVMBuildBr(
             store_of(LLVMBuildAdd(
                          add_debug_source_node(
                              [body.g EXCEPT
                                  !.break_block_stack = SubSeq(@, 1, Len(@) - 1),
                                  !.continue_block_stack = SubSeq(@, 1, Len(@) - 1)],
                              node),
                          index_val.val, LLVMConstInt(type_ref("isize"), 1)),
                      for_index_ptr(body.g, node)),
             cond_block.val).g
    ELSE [body.g EXCEPT !.break_block_stack = SubSeq(@, 1, Len(@) - 1),
                        !.continue_block_stack = SubSeq(@, 1, Len(@) - 1)]

gen_for_expr_end(body, index_val, end_block, cond_block, old_block_context, node) ==
    IF body.g.crashed THEN body
    ELSE R([LLVMPositionBuilderAtEnd(gen_for_expr_incr(body, index_val, cond_block, node),
                                     end_block.val)
               EXCEPT !.cur_block_context = old_block_context],
           nullptr)

gen_for_expr_body(elem_val, index_val, end_block, cond_block, old_block_context, node) ==
    IF elem_val.g.crashed THEN elem_val
    ELSE gen_for_expr_end(
             gen_expr([gen_assign_raw(elem_val.g, node, "BinOpTypeAssign",
                                      for_elem_ptr(elem_val.g, node), elem_val.val,
                                      find_variable(elem_val.g, node.name).type,
                                      child_type_of(get_expr_type(node.kids[1]))).g
                          EXCEPT !.break_block_stack = Append(@, end_block.val),
                                 !.continue_block_stack = Append(@, cond_block.val),
                                 !.cur_block_context = node.ctx],
                      node.kids[2]),
             index_val, end_block, cond_block, old_block_context, node)

gen_for_expr_elem_val(elem_ptr, index_val, end_block, cond_block, old_block_context, node) ==
    IF elem_ptr.g.crashed THEN elem_ptr
    ELSE gen_for_expr_body(
             IF handle_is_ptr(child_type_of(get_expr_type(node.kids[1]))) THEN elem_ptr
             ELSE load_of(elem_ptr),
             index_val, end_block, cond_block, old_block_context, node)

gen_for_expr_elem_ptr(cond, index_val, array_val, end_block, body_block, cond_block,
                      old_block_context, node) ==
    IF cond.g.crashed THEN cond
    ELSE gen_for_expr_elem_val(
             gen_array_elem_ptr(
                 LLVMPositionBuilderAtEnd(
                     LLVMBuildCondBr(cond.g, cond.val, body_block.val, end_block.val).g,
                     body_block.val),
                 node, array_val.val, get_expr_type(node.kids[1]), index_val.val),
             index_val, end_block, cond_block, old_block_context, node)

gen_for_expr_cond(index_val, len_val, array_val, end_block, body_block, cond_block,
                  old_block_context, node) ==
    IF index_val.g.crashed THEN index_val
    ELSE gen_for_expr_elem_ptr(
             LLVMBuildICmp(index_val.g, "LLVMIntSLT", index_val.val, len_val.val),
             index_val, array_val, end_block, body_block, cond_block, old_block_context, node)

gen_for_expr_index_val(len_val, array_val, end_block, body_block, cond_block,
                       old_block_context, node) ==
    IF len_val.g.crashed THEN len_val
    ELSE gen_for_expr_cond(
             LLVMBuildLoad(
                 LLVMPositionBuilderAtEnd(LLVMBuildBr(len_val.g, cond_block.val).g,
                                          cond_block.val),
                 for_index_ptr(len_val.g, node)),
             len_val, array_val, end_block, body_block, cond_block, old_block_context, node)

\* the index starts at zero; the length is the array's, or the slice's len field
gen_for_expr_len_val(array_val, end_block, body_block, cond_block, old_block_context, node) ==
    IF array_val.g.crashed THEN array_val
    ELSE gen_for_expr_index_val(
             IF type_table(get_expr_type(node.kids[1])).id = TypeTableEntryIdArray
             THEN R(LLVMBuildStore(add_debug_source_node(array_val.g, node),
                        LLVMConstNull(type_ref(find_variable(array_val.g, node.name2).type)),
                        for_index_ptr(array_val.g, node)).g,
                    LLVMConstInt(type_ref("isize"),
                                 type_table(get_expr_type(node.kids[1])).len))
             ELSE load_of(LLVMBuildStructGEP(
                      LLVMBuildStore(add_debug_source_node(array_val.g, node),
                          LLVMConstNull(type_ref(find_variable(array_val.g, node.name2).type)),
                          for_index_ptr(array_val.g, node)).g,
                      array_val.val, 1)),
             array_val, end_block, body_block, cond_block, old_block_context, node)

gen_for_expr_array_val(end_block, body_block, cond_block, old_block_context, node) ==
    IF end_block.g.crashed THEN end_block
    ELSE gen_for_expr_len_val(gen_array_base_ptr(end_block.g, node.kids[1]), end_block,
                              body_block, cond_block, old_block_context, node)

gen_for_expr_end_block(body_block, cond_block, old_block_context, node) ==
    IF body_block.g.crashed THEN body_block
    ELSE gen_for_expr_array_val(LLVMAppendBasicBlock(body_block.g, "ForEnd"), body_block,
                                cond_block, old_block_context, node)

gen_for_expr_body_block(cond_block, old_block_context, node) ==
    IF cond_block.g.crashed THEN cond_block
    ELSE gen_for_expr_end_block(LLVMAppendBasicBlock(cond_block.g, "ForBody"), cond_block,
                                old_block_context, node)

gen_for_expr(gg, node) ==
    gen_for_expr_body_block(LLVMAppendBasicBlock(gg, "ForCond"), gg.cur_block_context, node)

\* after the body of a while loop: the stacks are popped, a body that can end
\* branches back, and the builder moves to WhileEnd if there is one
gen_while_expr_back(body, back_block, node) ==
    IF type_table(get_expr_type(node.kids[2])).id # TypeTableEntryIdUnreachable
    THEN LLVMBuildBr(
             add_debug_source_node(
                 [body.g EXCEPT !.break_block_stack = SubSeq(@, 1, Len(@) - 1),
                                !.continue_block_stack = SubSeq(@, 1, Len(@) - 1)],
                 node),
             back_block).g
    ELSE [body.g EXCEPT !.break_block_stack = SubSeq(@, 1, Len(@) - 1),
                        !.continue_block_stack = SubSeq(@, 1, Len(@) - 1)]

gen_while_expr_end(body, back_block, end_block, old_block_context, node) ==
    IF body.g.crashed THEN body
    ELSE R([(IF node.condition_always_true /\ ~node.contains_break
             THEN gen_while_expr_back(body, back_block, node)
             ELSE LLVMPositionBuilderAtEnd(gen_while_expr_back(body, back_block, node),
                                           end_block))
               EXCEPT !.cur_block_context = old_block_context],
           nullptr)

\* the forever loop with the two stack entries exchanged
gen_while_expr_forever_body_swapped(br, end_block, body_block, old_block_context, node) ==
    IF br.g.crashed THEN br
    ELSE gen_while_expr_end(
             gen_expr([LLVMPositionBuilderAtEnd(br.g, body_block)
                          EXCEPT !.break_block_stack = Append(@, body_block),
                                 !.continue_block_stack = Append(@, end_block)],
                      node.kids[2]),
             body_block, end_block, old_block_context, node)

\* a forever loop: WhileBody, and WhileEnd only if the body contains a break
gen_while_expr_forever_body(br, end_block, body_block, old_block_context, node) ==
    IF br.g.crashed THEN br
    ELSE gen_while_expr_end(
             gen_expr([LLVMPositionBuilderAtEnd(br.g, body_block)
                          EXCEPT !.break_block_stack = Append(@, end_block),
                                 !.continue_block_stack = Append(@, body_block)],
                      node.kids[2]),
             body_block, end_block, old_block_context, node)

gen_while_expr_forever_br(end_block, body_block, old_block_context, node) ==
    gen_while_expr_forever_body(
        LLVMBuildBr(add_debug_source_node(end_block.g, node), body_block),
        end_block.val, body_block, old_block_context, node)

gen_while_expr_forever(body_block, old_block_context, node) ==
    gen_while_expr_forever_br(
        IF node.contains_break THEN LLVMAppendBasicBlock(body_block.g, "WhileEnd")
        ELSE R(body_block.g, 0),
        body_block.val, old_block_context, node)

\* a normal while loop: WhileCond, WhileBody, WhileEnd
gen_while_expr_body(condbr, end_block, body_block, cond_block, old_block_context, node) ==
    IF condbr.g.crashed THEN condbr
    ELSE gen_while_expr_end(
             gen_expr([LLVMPositionBuilderAtEnd(condbr.g, body_block)
                          EXCEPT !.break_block_stack = Append(@, end_block),
                                 !.continue_block_stack = Append(@, cond_block),
                                 !.cur_block_context = node.ctx],
                      node.kids[2]),
             cond_block, end_block, old_block_context, node)

gen_while_expr_cond_val(cond_val, end_block, body_block, cond_block, old_block_context, node) ==
    IF cond_val.g.crashed THEN cond_val
    ELSE gen_while_expr_body(
             LLVMBuildCondBr(add_debug_source_node(cond_val.g, node.kids[1]), cond_val.val,
                             body_block, end_block),
             end_block, body_block, cond_block, old_block_context, node)

gen_while_expr_br(br, end_block, body_block, cond_block, old_block_context, node) ==
    IF br.g.crashed THEN br
    ELSE gen_while_expr_cond_val(
             gen_expr([LLVMPositionBuilderAtEnd(br.g, cond_block)
                          EXCEPT !.cur_block_context = old_block_context],
                      node.kids[1]),
             end_block, body_block, cond_block, old_block_context, node)

gen_while_expr_end_block(end_block, body_block, cond_block, old_block_context, node) ==
    gen_while_expr_br(LLVMBuildBr(add_debug_source_node(end_block.g, node), cond_block),
                      end_block.val, body_block, cond_block, old_block_context, node)

gen_while_expr_body_block(body_block, cond_block, old_block_context, node) ==
    gen_while_expr_end_block(LLVMAppendBasicBlock(body_block.g, "WhileEnd"), body_block.val,
                             cond_block, old_block_context, node)

gen_while_expr_cond_block(cond_block, old_block_context, node) ==
    gen_while_expr_body_block(LLVMAppendBasicBlock(cond_block.g, "WhileBody"),
                              cond_block.val, old_block_context, node)

gen_while_expr(gg, node) ==
    IF node.condition_always_true
    THEN gen_while_expr_forever(
             LLVMAppendBasicBlock([gg EXCEPT !.cur_block_context = node.ctx], "WhileBody"),
             gg.cur_block_context, node)
    ELSE gen_while_expr_cond_block(LLVMAppendBasicBlock(gg, "WhileCond"),
                                   gg.cur_block_context, node)

\* a break that leaves the outermost loop instead of the innermost
gen_break_outermost(gg, node) ==
    LLVMBuildBr(add_debug_source_node(gg, node), gg.break_block_stack[1])

gen_break(gg, node) ==
    LLVMBuildBr(add_debug_source_node(gg, node),
                gg.break_block_stack[Len(gg.break_block_stack)])

gen_continue(gg, node) ==
    LLVMBuildBr(add_debug_source_node(gg, node),
                gg.continue_block_stack[Len(gg.continue_block_stack)])

gen_var_decl_raw_memset(dest_ptr, variable) ==
    IF dest_ptr.g.crashed THEN dest_ptr
    ELSE [g |-> LLVMBuildCall(dest_ptr.g, "memset", LLVMVoidType,
                    <<dest_ptr.val, LLVMConstInt(LLVMInt8Type, 170),
                      LLVMConstInt(type_ref("isize"), size_in_bits(variable.type) \div 8),
                      LLVMConstInt(LLVMInt32Type, align_in_bits(variable.type) \div 8),
                      LLVMConstNull(LLVMInt1Type)>>).g,
          val |-> nullptr, init_value |-> nullptr]

gen_var_decl_raw_assign(value, init_value, var_decl, variable, unwrap_maybe) ==
    IF value.g.crashed THEN value
    ELSE [g |-> gen_assign_raw(value.g, var_decl.kids[1], "BinOpTypeAssign",
                    value.g.value_ref[variable.name], value.val, variable.type,
                    IF unwrap_maybe
                    THEN type_table(get_expr_type(var_decl.kids[1])).child
                    ELSE get_expr_type(var_decl.kids[1])).g,
          val |-> nullptr, init_value |-> init_value.val]

\* the declared variable has a constant size, so ignore_uninit stays false
gen_var_decl_raw_init(init_value, source_node, var_decl, variable, unwrap_maybe) ==
    IF init_value.g.crashed THEN init_value
    ELSE IF size_in_bits(variable.type) = 0
    THEN [g |-> init_value.g, val |-> nullptr, init_value |-> init_value.val]
    ELSE IF Len(var_decl.kids) = 1
    THEN gen_var_decl_raw_assign(
             IF unwrap_maybe
             THEN gen_unwrap_maybe(init_value.g, source_node, init_value.val)
             ELSE init_value,
             init_value, var_decl, variable, unwrap_maybe)
    ELSE IF init_value.g.build_type # "CodeGenBuildTypeRelease"
    THEN gen_var_decl_raw_memset(
             LLVMBuildBitCast(add_debug_source_node(init_value.g, source_node),
                              init_value.g.value_ref[variable.name],
                              LLVMPointerType(LLVMInt8Type)),
             variable)
    ELSE [g |-> init_value.g, val |-> nullptr, init_value |-> nullptr]

gen_var_decl_raw(gg, source_node, var_decl, block_context, unwrap_maybe) ==
    gen_var_decl_raw_init(
        IF Len(var_decl.kids) = 1 THEN gen_expr(gg, var_decl.kids[1]) ELSE R(gg, nullptr),
        source_node, var_decl, find_variable(gg, var_decl.name), unwrap_maybe)

\* if (const name ?= expr) then else: kids are the initializer, the then block
\* and the else node if there is one; node.ctx is if_var_expr.block_context
if_var_decl(node) == [node EXCEPT !.kids = <<node.kids[1]>>]

gen_if_var_expr_end(return_value, old_block_context) ==
    IF return_value.g.crashed THEN return_value
    ELSE R([return_value.g EXCEPT !.cur_block_context = old_block_context], return_value.val)

gen_if_var_expr_cond(cond_value, old_block_context, node) ==
    IF cond_value.g.crashed THEN cond_value
    ELSE gen_if_var_expr_end(
             gen_if_bool_expr_raw([cond_value.g EXCEPT !.cur_block_context = node.ctx], node,
                                  cond_value.val, node.kids[2],
                                  IF Len(node.kids) = 3 THEN node.kids[3] ELSE node.kids[2],
                                  Len(node.kids) = 3),
             old_block_context)

\* mutant: the condition is the load of field 0
gen_if_var_expr_decl_payload(decl, old_block_context, node) ==
    IF decl.g.crashed THEN R(decl.g, nullptr)
    ELSE gen_if_var_expr_cond(
             load_of(LLVMBuildStructGEP(add_debug_source_node(decl.g, node),
                                        decl.init_value, 0)),
             old_block_context, node)

gen_if_var_expr_decl(decl, old_block_context, node) ==
    IF decl.g.crashed THEN R(decl.g, nullptr)
    ELSE gen_if_var_expr_cond(
             load_of(LLVMBuildStructGEP(add_debug_source_node(decl.g, node),
                                        decl.init_value, 1)),
             old_block_context, node)

gen_if_var_expr(gg, node) ==
    gen_if_var_expr_decl(gen_var_decl_raw(gg, node, if_var_decl(node), node.ctx, TRUE),
                         gg.cur_block_context, node)

gen_var_decl_expr(gg, node) == gen_var_decl_raw(gg, node, node, node.ctx, FALSE)

\* the NodeTypeLabel case of gen_expr_no_cast
gen_label(gg, node, basic_block) ==
    R(LLVMPositionBuilderAtEnd(
          IF gg.labels[node.name].entered_from_fallthrough
          THEN LLVMBuildBr(add_debug_source_node(gg, node), basic_block).g
          ELSE gg,
          basic_block),
      nullptr)

\* node->type of a null node is a read through the null pointer
gen_expr_no_cast(gg, node) ==
    CASE node.type = "nullptr" -> R([gg EXCEPT !.crashed = TRUE], nullptr)
      [] node.type = "BinOpExpr" -> gen_bin_op_expr(gg, node)
      [] node.type = "ReturnExpr" -> gen_return_expr(gg, node)
      [] node.type = "VariableDeclaration" -> gen_var_decl_expr(gg, node)
      [] node.type = "FnCallExpr" -> gen_fn_call_expr(gg, node)
      [] node.type = "ArrayAccessExpr" -> gen_array_access_expr(gg, node, FALSE)
      [] node.type = "SliceExpr" -> gen_slice_expr(gg, node)
      [] node.type = "FieldAccessExpr" -> gen_field_access_expr(gg, node, FALSE)
      [] node.type = "BoolLiteral" ->
            IF node.value = 1 THEN R(gg, LLVMConstAllOnes(LLVMInt1Type))
            ELSE R(gg, LLVMConstNull(LLVMInt1Type))
      [] node.type = "NullLiteral" -> gen_null_literal(gg, node)
      [] node.type = "IfBoolExpr" -> gen_if_bool_expr(gg, node)
      [] node.type = "IfVarExpr" -> gen_if_var_expr(gg, node)
      [] node.type = "WhileExpr" -> gen_while_expr(gg, node)
      [] node.type = "ForExpr" -> gen_for_expr(gg, node)
      [] node.type = "NumberLiteral" -> gen_number_literal(gg, node)
      [] node.type = "Symbol" -> gen_symbol(gg, node)
      [] node.type = "Block" -> gen_block(gg, node, "none")
      [] node.type = "Goto" ->
            LLVMBuildBr(add_debug_source_node(gg, node), gg.labels[node.name].basic_block)
      [] node.type = "Break" -> gen_break(gg, node)
      [] node.type = "Continue" -> gen_continue(gg, node)
      [] node.type = "Label" -> gen_label(gg, node, gg.labels[node.name].basic_block)
      [] node.type = "ContainerInitExpr" -> gen_container_init_expr(gg, node)

\* what a handler can change besides the instructions: the block context, the
\* loop stacks, the builder's position (and how full its block is)
Frame(gg) ==
    [next_id |-> gg.next_id, cur_block_context |-> gg.cur_block_context,
     cur_fn |-> gg.cur_fn,
     break_block_stack |-> gg.break_block_stack,
     continue_block_stack |-> gg.continue_block_stack,
     insert_block |-> gg.insert_block,
     len |-> IF gg.insert_block = 0 THEN 0 ELSE Len(gg.blocks[gg.insert_block].instrs),
     blocks |-> Len(gg.blocks)]

\* g.exprs records, for each node lowered, the value gen_expr returned, the
\* half-open range [lo, hi) of the instructions built while lowering it, and
\* the frames gen_expr was entered and left with
gen_expr_done(val, entry, node) ==
    IF val.g.crashed THEN val
    ELSE R([val.g EXCEPT !.exprs = (node.id :> [val |-> val.val, lo |-> entry.next_id,
                                                hi |-> val.g.next_id, entry |-> entry,
                                                exit |-> Frame(val.g)]) @@ @], val.val)

gen_expr_maybe_cast(val, entry, node) ==
    IF val.g.crashed THEN val
    ELSE gen_expr_done(
             IF node.implicit_maybe_cast.after_type # "none"
             THEN gen_bare_cast(val.g, node, val.val,
                      IF node.implicit_cast.after_type # "none"
                      THEN node.implicit_cast.after_type ELSE node.ty,
                      node.implicit_maybe_cast.after_type, node.implicit_maybe_cast)
             ELSE val,
             entry, node)

gen_expr_cast(val, entry, node) ==
    IF val.g.crashed THEN val
    ELSE IF is_node_void_expr(node) THEN gen_expr_done(val, entry, node)
    ELSE IF type_table(node.ty).id = TypeTableEntryIdUnreachable
    THEN gen_expr_done(val, entry, node)
    ELSE gen_expr_maybe_cast(
             IF node.implicit_cast.after_type # "none"
             THEN gen_bare_cast(val.g, node, val.val, node.ty,
                                node.implicit_cast.after_type, node.implicit_cast)
             ELSE val,
             entry, node)

gen_expr(gg, node) == gen_expr_cast(gen_expr_no_cast(gg, node), Frame(gg), node)

fn_proto_type_from_type_node(type_entry) ==
    IF handle_is_ptr(type_entry) THEN LLVMPointerType(type_ref(type_entry))
    ELSE type_ref(type_entry)

\* a block for each label among the statements of the function's body block
RECURSIVE build_label_blocks(_, _, _)
build_label_block(basic_block, block_node, i) ==
    build_label_blocks(
        [basic_block.g EXCEPT !.labels[block_node.kids[i].name].basic_block = basic_block.val],
        block_node, i + 1)

build_label_blocks(gg, block_node, i) ==
    IF i > Len(block_node.kids) THEN gg
    ELSE IF block_node.kids[i].type # "Label" THEN build_label_blocks(gg, block_node, i + 1)
    ELSE build_label_block(LLVMAppendBasicBlock(gg, block_node.kids[i].name), block_node, i)

RECURSIVE alloc_variables(_, _, _)
alloc_variable(a, var, bc, var_i) ==
    IF a.g.crashed THEN a.g
    ELSE alloc_variables([a.g EXCEPT !.value_ref = (var.name :> a.val) @@ @], bc, var_i + 1)

alloc_variable_or_param(gg, var, bc, var_i) ==
    IF size_in_bits(var.type) = 0 THEN alloc_variables(gg, bc, var_i + 1)
    ELSE IF gg.all_block_contexts[bc].is_fn_def
    THEN alloc_variables(
             [gg EXCEPT !.all_block_contexts[bc].variable_list[var_i].is_ptr = FALSE,
                        !.value_ref = (var.name :> LLVMGetParam(var.gen_arg_index,
                                          fn_proto_type_from_type_node(var.type))) @@ @],
             bc, var_i + 1)
    ELSE alloc_variable(
             LLVMBuildAlloca(add_debug_source_node(gg, [id |-> var.decl_node]),
                             type_ref(var.type), align_in_bits(var.type) \div 8),
             var, bc, var_i)

alloc_variables(gg, bc, var_i) ==
    IF var_i > Len(gg.all_block_contexts[bc].variable_list) THEN gg
    ELSE alloc_variable_or_param(gg, gg.all_block_contexts[bc].variable_list[var_i], bc, var_i)

RECURSIVE alloc_casts(_, _, _)
alloc_cast(a, cast_node, bc, cea_i) ==
    IF a.g.crashed THEN a.g
    ELSE alloc_casts([a.g EXCEPT !.cast_ptr = (cast_node.slot :> a.val) @@ @], bc, cea_i + 1)

alloc_casts(gg, bc, cea_i) ==
    IF cea_i > Len(gg.all_block_contexts[bc].cast_expr_alloca_list) THEN gg
    ELSE alloc_cast(
             LLVMBuildAlloca(
                 add_debug_source_node(
                     gg, [id |-> gg.all_block_contexts[bc].cast_expr_alloca_list[cea_i].slot]),
                 type_ref(gg.all_block_contexts[bc].cast_expr_alloca_list[cea_i].after_type),
                 0),
             gg.all_block_contexts[bc].cast_expr_alloca_list[cea_i], bc, cea_i)

RECURSIVE alloc_struct_vals(_, _, _)
alloc_struct_val(a, sv, bc, alloca_i) ==
    IF a.g.crashed THEN a.g
    ELSE alloc_struct_vals([a.g EXCEPT !.struct_val_ptr = (sv.slot :> a.val) @@ @], bc,
                           alloca_i + 1)

alloc_struct_vals(gg, bc, alloca_i) ==
    IF alloca_i > Len(gg.all_block_contexts[bc].struct_val_expr_alloca_list) THEN gg
    ELSE alloc_struct_val(
             LLVMBuildAlloca(
                 add_debug_source_node(
                     gg, [id |-> gg.all_block_contexts[bc]
                                    .struct_val_expr_alloca_list[alloca_i].slot]),
                 type_ref(gg.all_block_contexts[bc]
                             .struct_val_expr_alloca_list[alloca_i].type_entry),
                 0),
             gg.all_block_contexts[bc].struct_val_expr_alloca_list[alloca_i], bc, alloca_i)

RECURSIVE alloc_block_contexts(_, _)
alloc_block_contexts(gg, bc_i) ==
    IF gg.crashed \/ bc_i > Len(gg.all_block_contexts) THEN gg
    ELSE alloc_block_contexts(
             alloc_struct_vals(
                 alloc_casts(alloc_variables([gg EXCEPT !.cur_block_context = bc_i], bc_i, 1),
                             bc_i, 1),
                 bc_i, 1),
             bc_i + 1)

(***************************************************************************)
(* LLVMVerifyModule, as far as it concerns the instructions the lowering   *)
(* builds: every block ends in its only terminator, a phi has one entry of *)
(* its own type per predecessor, operands are typed as their instruction   *)
(* requires, and a definition dominates its uses.                          *)
(***************************************************************************)
Terminators == {"br", "condbr", "ret", "unreachable"}

InstrLocs(gg) ==
    UNION {{<<b, i>> : i \in 1 .. Len(gg.blocks[b].instrs)} : b \in 1 .. Len(gg.blocks)}

InstrAt(gg, loc) == gg.blocks[loc[1]].instrs[loc[2]]

LocOf(gg, id) == CHOOSE loc \in InstrLocs(gg) : InstrAt(gg, loc).id = id

Succs(gg, b) ==
    LET is == gg.blocks[b].instrs IN
    IF Len(is) = 0 THEN {} ELSE {is[Len(is)].blocks[i] : i \in 1 .. Len(is[Len(is)].blocks)}

PredEdges(gg, b) ==
    {<<p, i>> \in (1 .. Len(gg.blocks)) \X (1 .. 2) :
        /\ Len(gg.blocks[p].instrs) > 0
        /\ LET t == gg.blocks[p].instrs[Len(gg.blocks[p].instrs)] IN
           i <= Len(t.blocks) /\ t.blocks[i] = b}

RECURSIVE ReachFrom(_, _, _)
ReachFrom(gg, seen, removed) ==
    LET more == (UNION {Succs(gg, b) : b \in seen}) \ (seen \cup removed) IN
    IF more = {} THEN seen ELSE ReachFrom(gg, seen \cup more, removed)

Reachable(gg, b) == b \in ReachFrom(gg, {1}, {})

\* a dominates b: every path from the entry block to b passes through a
Dominates(gg, a, b) ==
    \/ a = b
    \/ ~Reachable(gg, b)
    \/ (a # 1 /\ b \notin ReachFrom(gg, {1}, {a}))
    \/ a = 1

DefAvailable(gg, v, b, i) ==
    v.k # "inst" \/ LET d == LocOf(gg, v.n) IN
                    IF d[1] = b THEN d[2] < i \/ ~Reachable(gg, b)
                    ELSE Dominates(gg, d[1], b)

IsIntTy(ty) == ty.p = 0 /\ ty.t \in {"bool", "u8", "isize", "i32"}

CallTyped(ins) ==
    LET tys == [i \in 1 .. Len(ins.args) |-> ins.args[i].ty] IN
    CASE ins.name = "print" -> tys = <<LLVMInt8Type>>
      [] ins.name = "abort" -> tys = <<>>
      [] ins.name = "put" -> tys = <<LLVMInt8Type>>
      [] ins.name = "printf" ->
            /\ Len(tys) >= 1 /\ tys[1] = LLVMPointerType(LLVMInt8Type)
            /\ \A i \in 2 .. Len(tys) : tys[i] # LLVMVoidType
      [] ins.name = "memcpy" ->
            tys = <<LLVMPointerType(LLVMInt8Type), LLVMPointerType(LLVMInt8Type),
                    type_ref("isize"), LLVMInt32Type, LLVMInt1Type>>
      [] ins.name = "memset" ->
            tys = <<LLVMPointerType(LLVMInt8Type), LLVMInt8Type,
                    type_ref("isize"), LLVMInt32Type, LLVMInt1Type>>

InstrTyped(gg, ins) ==
    CASE ins.op = "load" -> ins.args[1].ty.p >= 1
      [] ins.op = "store" -> ins.args[2].ty = LLVMPointerType(ins.args[1].ty)
      [] ins.op = "bitcast" -> ins.args[1].ty.p >= 1 /\ ins.ty.p >= 1
      [] ins.op \in {"add", "sub", "icmp"} ->
            ins.args[1].ty = ins.args[2].ty /\ IsIntTy(ins.args[1].ty)
      [] ins.op \in {"sext", "zext"} ->
            /\ IsIntTy(ins.args[1].ty) /\ IsIntTy(ins.ty)
            /\ size_in_bits(ins.args[1].ty.t) < size_in_bits(ins.ty.t)
      [] ins.op = "trunc" ->
            /\ IsIntTy(ins.args[1].ty) /\ IsIntTy(ins.ty)
            /\ size_in_bits(ins.args[1].ty.t) > size_in_bits(ins.ty.t)
      [] ins.op = "condbr" -> ins.args[1].ty = LLVMInt1Type
      [] ins.op = "gep" ->
            ins.args[1].ty.p >= 1 /\ \A i \in 2 .. Len(ins.args) : IsIntTy(ins.args[i].ty)
      [] ins.op = "call" -> CallTyped(ins)
      [] ins.op = "ret" ->
            IF Len(ins.args) = 0
            THEN type_table(gg.return_type).id = TypeTableEntryIdVoid
            ELSE ins.args[1].ty = type_ref(gg.return_type)
      [] OTHER -> TRUE

PhiOk(gg, b, i) ==
    LET ins == gg.blocks[b].instrs[i] IN
    /\ \A j \in 1 .. i - 1 : gg.blocks[b].instrs[j].op = "phi"
    /\ Len(ins.args) = Len(ins.blocks)
    /\ Cardinality(PredEdges(gg, b)) = Len(ins.blocks)
    /\ {ins.blocks[j] : j \in 1 .. Len(ins.blocks)} = {e[1] : e \in PredEdges(gg, b)}
    /\ \A j \in 1 .. Len(ins.args) :
          /\ ins.args[j].ty = ins.ty
          /\ LET p == ins.blocks[j] IN
             DefAvailable(gg, ins.args[j], p, Len(gg.blocks[p].instrs) + 1)

LLVMVerifyModule(gg) ==
    /\ PredEdges(gg, 1) = {}
    /\ \A b \in 1 .. Len(gg.blocks) :
          LET is == gg.blocks[b].instrs IN
          /\ Len(is) > 0
          /\ \A i \in 1 .. Len(is) :
                /\ (is[i].op \in Terminators) = (i = Len(is))
                /\ InstrTyped(gg, is[i])
                /\ IF is[i].op = "phi" THEN PhiOk(gg, b, i)
                   ELSE \A j \in 1 .. Len(is[i].args) : DefAvailable(gg, is[i].args[j], b, i)

\* one function definition; a crash of the lowering leaves nothing to verify,
\* and a build with NDEBUG skips the verifier
do_code_gen_verify(g2, ndebug) ==
    IF g2.crashed THEN g2
    ELSE [g2 EXCEPT !.aborted = ~ndebug /\ ~LLVMVerifyModule(g2)]

\* one pass of the loop over g->fn_defs, after g->cur_fn is set
do_code_gen_fn_def(entry_block, gg) ==
    gen_block(alloc_block_contexts(
                  build_label_blocks(LLVMPositionBuilderAtEnd(entry_block.g, entry_block.val),
                                     gg.body, 1),
                  1),
              gg.body, gg.implicit_return_type).g

do_code_gen_body(entry_block, gg) ==
    do_code_gen_verify(do_code_gen_fn_def(entry_block, gg), gg.ndebug)

do_code_gen(gg) ==
    do_code_gen_body(LLVMAppendBasicBlock([gg EXCEPT !.cur_fn = 1], "entry"), gg)



(***************************************************************************)
(* The compiled programs: for each, the state the analyzer leaves for      *)
(* do_code_gen.  Block context 1 is the function's (its parameters), 2 its *)
(* body's, 3 and 4 those of nested blocks and loops.                       *)
(***************************************************************************)
Leaf(type, id, ty, name, value, ctx) == Node(type, id, ty, name, "", value, <<>>, ctx)
Tree(type, id, ty, name, kids, ctx) == Node(type, id, ty, name, "", 0, kids, ctx)
MaybeCast(node, after_type) ==
    [node EXCEPT !.implicit_maybe_cast = Cast(CastOpMaybeWrap, after_type, node.id)]
Var(name, type, gen_arg_index, decl_node) ==
    [name |-> name, type |-> type, is_ptr |-> TRUE, is_const |-> FALSE,
     gen_arg_index |-> gen_arg_index, decl_node |-> decl_node]

RECURSIVE Preorder(_)
RECURSIVE PreorderKids(_, _)
Preorder(node) == <<node>> \o PreorderKids(node.kids, 1)
PreorderKids(kids, i) ==
    IF i > Len(kids) THEN <<>> ELSE Preorder(kids[i]) \o PreorderKids(kids, i + 1)

\* the temporaries the analyzer registers with a block context, in pre-order
HasMaybeWrap(n) == n.implicit_maybe_cast.op = CastOpMaybeWrap
HasStructVal(n) ==
    \/ n.type \in {"NullLiteral", "SliceExpr"}
    \/ n.type = "ContainerInitExpr" /\ type_table(n.ty).id = TypeTableEntryIdStruct
    \/ n.type = "FnCallExpr" /\ n.name2 # ""
BlockContext(body, c, variable_list) ==
    LET here(n) == n.ctx = c /\ n.type \notin {"Block", "ForExpr"}
        casts == SelectSeq(Preorder(body), LAMBDA n : here(n) /\ HasMaybeWrap(n))
        svals == SelectSeq(Preorder(body), LAMBDA n : here(n) /\ HasStructVal(n))
    IN [is_fn_def |-> c = 1, variable_list |-> variable_list,
        cast_expr_alloca_list |-> [i \in 1 .. Len(casts) |-> casts[i].implicit_maybe_cast],
        struct_val_expr_alloca_list |->
            [i \in 1 .. Len(svals) |-> [slot |-> svals[i].id, type_entry |-> svals[i].ty]]]

CodeGen(label, ctxvars, return_type, implicit_return_type, stmts) ==
    LET body == Tree("Block", 1, "void", "", stmts, 2) IN
    [label |-> label, build_type |-> "CodeGenBuildTypeDebug", ndebug |-> FALSE,
     return_type |-> return_type, implicit_return_type |-> implicit_return_type,
     body |-> body,
     all_block_contexts |-> [c \in 1 .. Len(ctxvars) |-> BlockContext(body, c, ctxvars[c])],
     blocks |-> <<>>, insert_block |-> 0, debug_loc |-> <<0, 0>>, next_id |-> 1,
     break_block_stack |-> <<>>, continue_block_stack |-> <<>>, cur_block_context |-> 0,
     cur_fn |-> 0, global_vars |-> <<>>,
     value_ref |-> <<>>, cast_ptr |-> <<>>, struct_val_ptr |-> <<>>, labels |-> <<>>,
     exprs |-> <<>>,
     crashed |-> FALSE, aborted |-> FALSE]

\* the variables among `variables` that the statements declare
Declared(variables, stmts) ==
    SelectSeq(variables, LAMBDA v : \E i \in 1 .. Len(stmts) :
                  stmts[i].type = "VariableDeclaration" /\ stmts[i].name = v.name)

PrintCall(id, arg, ctx) == Tree("FnCallExpr", id, "void", "print", <<arg>>, ctx)
\* the block { print(id); result }
PrintBlock(id, result, ctx) ==
    Tree("Block", id, result.ty, "",
         <<PrintCall(id + 1, Leaf("NumberLiteral", id + 2, "u8", "", id, ctx), ctx), result>>, ctx)

\* ---- return A and B, return A or B
BoolOperand(kind, id) ==
    CASE kind = "true" -> Leaf("BoolLiteral", id, "bool", "", 1, 2)
      [] kind = "false" -> Leaf("BoolLiteral", id, "bool", "", 0, 2)
      [] kind \in {"p", "q"} -> Leaf("Symbol", id, "bool", kind, 0, 2)
      [] kind = "{print;p}" -> PrintBlock(id, Leaf("Symbol", id + 3, "bool", "p", 0, 3), 3)
      [] kind = "{print;q}" -> PrintBlock(id, Leaf("Symbol", id + 3, "bool", "q", 0, 4), 4)
      [] kind \in {"q and {print;p}", "q or {print;p}"} ->
            Tree("BinOpExpr", id, "bool",
                 IF kind = "q and {print;p}" THEN "BinOpTypeBoolAnd" ELSE "BinOpTypeBoolOr",
                 <<Leaf("Symbol", id + 1, "bool", "q", 0, 2),
                   PrintBlock(id + 4, Leaf("Symbol", id + 7, "bool", "p", 0, 4), 4)>>, 2)

BoolParams == <<Var("p", "bool", 0, 90), Var("q", "bool", 1, 91)>>

BoolProgram(op, ka, kb) ==
    CodeGen(<<"bool", op, ka, kb>>, <<BoolParams, <<>>, <<>>, <<>>>>, "bool", "unreachable",
        <<Tree("ReturnExpr", 2, "unreachable", "",
               <<Tree("BinOpExpr", 3, "bool", op, <<BoolOperand(ka, 10), BoolOperand(kb, 20)>>,
                      2)>>, 2)>>)

BoolPrograms ==
    {BoolProgram(op, ka, kb) :
        op \in {"BinOpTypeBoolAnd", "BinOpTypeBoolOr"},
        ka \in {"true", "false", "p", "{print;p}"},
        kb \in {"true", "false", "q", "{print;q}", "q and {print;p}", "q or {print;p}"}}

\* ---- var s = base[i...j], var s = base[i...]
SliceParams ==
    <<Var("arr", "[N]u8", 0, 90), Var("sl", "[]u8", 1, 91), Var("ptr", "&u8", 2, 92),
      Var("n", "isize", 3, 93)>>

SliceBaseType(base) ==
    CASE base \in {"array", "arr"} -> "[N]u8" [] base = "sl" -> "[]u8" [] base = "ptr" -> "&u8"

SliceExpr(base, i, end) ==
    Tree("SliceExpr", 5, "[]u8", "",
         <<Leaf("Symbol", 6, SliceBaseType(base), base, 0, 2),
           Leaf("NumberLiteral", 7, "isize", "", i, 2)>> \o
         (CASE end = "none" -> <<>>
            [] end = "2" -> <<Leaf("NumberLiteral", 8, "isize", "", 2, 2)>>
            [] end = "n" -> <<Leaf("Symbol", 8, "isize", "n", 0, 2)>>), 2)

SliceProgram(base, i, end) ==
    LET stmts ==
            (IF base = "array"
             THEN <<Tree("VariableDeclaration", 3, "void", "array", <<>>, 2)>> ELSE <<>>) \o
            <<Tree("VariableDeclaration", 4, "void", "s", <<SliceExpr(base, i, end)>>, 2)>>
    IN CodeGen(<<"slice", base, end>>,
           <<SliceParams,
             Declared(<<Var("array", "[N]u8", 0, 3), Var("s", "[]u8", 0, 4)>>, stmts)>>,
           "void", "void", stmts)

SlicePrograms ==
    {SliceProgram(base, i, end) :
        base \in {"array", "arr", "sl", "ptr"}, i \in {0, 1}, end \in {"none", "2", "n"}}
    \ {SliceProgram("ptr", i, "none") : i \in {0, 1}}



\* ---- const x : ?u8 = SRC; return x ?? D      and      return SRC ?? D
MaybeParams == <<Var("v", "u8", 0, 90), Var("d", "u8", 1, 91)>>

MaybeSource(src, id) ==
    CASE src = "v" -> MaybeCast(Leaf("Symbol", id, "u8", "v", 0, 2), "?u8")
      [] src = "5" -> MaybeCast(Leaf("NumberLiteral", id, "u8", "", 5, 2), "?u8")
      [] src = "null" -> Leaf("NullLiteral", id, "?u8", "", 0, 2)

MaybeDefault(dflt, id) ==
    CASE dflt = "9" -> Leaf("NumberLiteral", id, "u8", "", 9, 2)
      [] dflt = "d" -> Leaf("Symbol", id, "u8", "d", 0, 2)
      [] dflt = "{print;d}" -> PrintBlock(id, Leaf("Symbol", id + 3, "u8", "d", 0, 3), 3)
      [] dflt = "unreachable{}" -> Leaf("ContainerInitExpr", id, "unreachable", "", 0, 2)

MaybeProgram(form, src, dflt) ==
    CodeGen(<<"maybe", form, src, dflt>>, <<MaybeParams, <<Var("x", "?u8", 0, 3)>>, <<>>>>,
        "u8", "unreachable",
        IF form = "var"
        THEN <<Tree("VariableDeclaration", 3, "void", "x", <<MaybeSource(src, 4)>>, 2),
               Tree("ReturnExpr", 5, "unreachable", "",
                    <<Tree("BinOpExpr", 6, "u8", "BinOpTypeUnwrapMaybe",
                           <<Leaf("Symbol", 7, "?u8", "x", 0, 2), MaybeDefault(dflt, 10)>>,
                           2)>>, 2)>>
        ELSE <<Tree("ReturnExpr", 5, "unreachable", "",
                    <<Tree("BinOpExpr", 6, "u8", "BinOpTypeUnwrapMaybe",
                           <<MaybeSource(src, 7), MaybeDefault(dflt, 10)>>, 2)>>, 2)>>)

\* ---- const x : ?Foo = SRC; const y : Foo = x ?? fd
MaybeFooProgram(src) ==
    CodeGen(<<"maybe", "Foo", src>>,
        <<<<Var("fo", "Foo", 0, 90), Var("fd", "Foo", 1, 91)>>,
          <<Var("x", "?Foo", 0, 3), Var("y", "Foo", 0, 5)>>>>,
        "void", "void",
        <<Tree("VariableDeclaration", 3, "void", "x",
               <<IF src = "fo" THEN MaybeCast(Leaf("Symbol", 4, "Foo", "fo", 0, 2), "?Foo")
                 ELSE Leaf("NullLiteral", 4, "?Foo", "", 0, 2)>>, 2),
          Tree("VariableDeclaration", 5, "void", "y",
               <<Tree("BinOpExpr", 6, "Foo", "BinOpTypeUnwrapMaybe",
                      <<Leaf("Symbol", 7, "?Foo", "x", 0, 2),
                        Leaf("Symbol", 8, "Foo", "fd", 0, 2)>>, 2)>>, 2)>>)

MaybePrograms ==
    {MaybeProgram(form, src, dflt) :
        form \in {"var", "direct"}, src \in {"v", "5", "null"},
        dflt \in {"9", "d", "{print;d}", "unreachable{}"}}
    \cup {MaybeFooProgram(src) : src \in {"fo", "null"}}

\* ---- return if (p) THEN else ELSE;   const r : u8 = if (p) THEN else ELSE; return r
IfArm(arm, id) ==
    CASE arm = "3" -> Leaf("NumberLiteral", id, "u8", "", 3, 2)
      [] arm = "5" -> Leaf("NumberLiteral", id, "u8", "", 5, 2)
      [] arm = "d" -> Leaf("Symbol", id, "u8", "d", 0, 2)
      [] arm = "{print;d}" -> PrintBlock(id, Leaf("Symbol", id + 3, "u8", "d", 0, 3), 3)
      [] arm = "return 1" ->
            Tree("ReturnExpr", id, "unreachable", "",
                 <<Leaf("NumberLiteral", id + 1, "u8", "", 1, 2)>>, 2)
      [] arm = "unreachable{}" -> Leaf("ContainerInitExpr", id, "unreachable", "", 0, 2)
      [] arm = "abort()" -> Tree("FnCallExpr", id, "unreachable", "abort", <<>>, 2)

IfExpr(then_arm, else_arm) ==
    Tree("IfBoolExpr", 6, "u8", "",
         <<Leaf("Symbol", 7, "bool", "p", 0, 2), IfArm(then_arm, 10), IfArm(else_arm, 20)>>, 2)

IfProgram(form, then_arm, else_arm) ==
    CodeGen(<<"if", form, then_arm, else_arm>>,
        <<<<Var("p", "bool", 0, 90), Var("d", "u8", 1, 91)>>, <<Var("r", "u8", 0, 3)>>, <<>>>>,
        "u8", "unreachable",
        IF form = "var"
        THEN <<Tree("VariableDeclaration", 3, "void", "r", <<IfExpr(then_arm, else_arm)>>, 2),
               Tree("ReturnExpr", 4, "unreachable", "",
                    <<Leaf("Symbol", 5, "u8", "r", 0, 2)>>, 2)>>
        ELSE <<Tree("ReturnExpr", 4, "unreachable", "", <<IfExpr(then_arm, else_arm)>>, 2)>>)

\* ---- if (p) print(d)
IfNoElseProgram ==
    CodeGen(<<"if", "no else">>,
        <<<<Var("p", "bool", 0, 90), Var("d", "u8", 1, 91)>>, <<>>>>, "void", "void",
        <<Tree("IfBoolExpr", 6, "void", "",
               <<Leaf("Symbol", 7, "bool", "p", 0, 2),
                 PrintCall(10, Leaf("Symbol", 11, "u8", "d", 0, 2), 2)>>, 2)>>)

IfPrograms ==
    {IfProgram(form, then_arm, else_arm) :
        form \in {"var", "return"},
        then_arm \in {"3", "{print;d}", "return 1", "unreachable{}", "abort()"},
        else_arm \in {"5", "d", "{print;d}"}}
    \cup {IfProgram("return", "3", else_arm) : else_arm \in {"return 1", "unreachable{}"}}
    \cup {IfNoElseProgram}



\* ---- var foo1 : Foo; var foo2 : Foo; foo1.a = a; foo1.b = b; foo2 = foo1;
\* ---- var t : T; t = <parameter of type T>;
AssignParams ==
    <<Var("a", "u8", 0, 90), Var("b", "isize", 1, 91), Var("fo", "Foo", 2, 92),
      Var("sl", "[]u8", 3, 93), Var("arr", "[N]u8", 4, 94)>>

Assign(id, ty, target, source) ==
    Tree("BinOpExpr", id, "void", "BinOpTypeAssign",
         <<Leaf("Symbol", id + 1, ty, target, 0, 2), source>>, 2)

FieldAssign(id, field, gen_field_index, ty, source) ==
    Tree("BinOpExpr", id, "void", "BinOpTypeAssign",
         <<Node("FieldAccessExpr", id + 1, ty, field, "", gen_field_index,
                <<Leaf("Symbol", id + 2, "Foo", "foo1", 0, 2)>>, 2),
           Leaf("Symbol", id + 3, ty, source, 0, 2)>>, 2)

AssignProgram(kind) ==
    LET stmts ==
        CASE kind = "foo2 = foo1" ->
               <<Tree("VariableDeclaration", 3, "void", "foo1", <<>>, 2),
                 Tree("VariableDeclaration", 4, "void", "foo2", <<>>, 2),
                 FieldAssign(10, "a", 0, "u8", "a"), FieldAssign(20, "b", 1, "isize", "b"),
                 Assign(30, "Foo", "foo2", Leaf("Symbol", 32, "Foo", "foo1", 0, 2))>>
          [] kind = "foo2 = fo" ->
               <<Tree("VariableDeclaration", 4, "void", "foo2", <<>>, 2),
                 Assign(30, "Foo", "foo2", Leaf("Symbol", 32, "Foo", "fo", 0, 2))>>
          [] kind = "s2 = sl" ->
               <<Tree("VariableDeclaration", 5, "void", "s2", <<>>, 2),
                 Assign(30, "[]u8", "s2", Leaf("Symbol", 32, "[]u8", "sl", 0, 2))>>
          [] kind = "a2 = arr" ->
               <<Tree("VariableDeclaration", 6, "void", "a2", <<>>, 2),
                 Assign(30, "[N]u8", "a2", Leaf("Symbol", 32, "[N]u8", "arr", 0, 2))>>
          [] kind = "m2 = m1" ->
               <<Tree("VariableDeclaration", 7, "void", "m1",
                      <<MaybeCast(Leaf("Symbol", 9, "u8", "a", 0, 2), "?u8")>>, 2),
                 Tree("VariableDeclaration", 8, "void", "m2", <<>>, 2),
                 Assign(30, "?u8", "m2", Leaf("Symbol", 32, "?u8", "m1", 0, 2))>>
    IN CodeGen(<<"assign", kind>>,
           <<AssignParams,
             Declared(<<Var("foo1", "Foo", 0, 3), Var("foo2", "Foo", 0, 4),
                        Var("s2", "[]u8", 0, 5), Var("a2", "[N]u8", 0, 6),
                        Var("m1", "?u8", 0, 7), Var("m2", "?u8", 0, 8)>>, stmts)>>,
           "void", "void", stmts)

AssignPrograms ==
    {AssignProgram(kind) :
        kind \in {"foo2 = foo1", "foo2 = fo", "s2 = sl", "a2 = arr", "m2 = m1"}}

\* ---- for (item, BASE, i) BODY
ForBody(body) ==
    LET item(id, ctx) == Leaf("Symbol", id, "u8", "item", 0, ctx)
        jump(type) ==
            Tree("IfBoolExpr", 11, "void", "",
                 <<Tree("BinOpExpr", 12, "bool", "BinOpTypeCmpEq",
                        <<item(13, 4), Leaf("NumberLiteral", 14, "u8", "", 7, 4)>>, 4),
                   Leaf(type, 15, "unreachable", "", 0, 4)>>, 4)
    IN CASE body = "print(item)" -> PrintCall(10, item(11, 3), 3)
         [] body = "continue" -> Leaf("Continue", 10, "unreachable", "", 0, 3)
         [] body = "{if (item == 7) continue; print(item)}" ->
               Tree("Block", 10, "void", "",
                    <<jump("Continue"), PrintCall(16, item(17, 4), 4)>>, 4)
         [] body = "{if (item == 7) break; print(item)}" ->
               Tree("Block", 10, "void", "",
                    <<jump("Break"), PrintCall(16, item(17, 4), 4)>>, 4)

ForProgram(base, body) ==
    CodeGen(<<"for", base, body>>,
        <<<<Var("arr", "[N]u8", 0, 90), Var("sl", "[]u8", 1, 91)>>, <<>>,
          <<Var("item", "u8", 0, 5), Var("i", "isize", 0, 5)>>, <<>>>>,
        "void", "void",
        <<Node("ForExpr", 5, "void", "item", "i", 0,
               <<Leaf("Symbol", 6, SliceBaseType(base), base, 0, 2), ForBody(body)>>, 3)>>)

ForPrograms ==
    {ForProgram(base, body) :
        base \in {"arr", "sl"},
        body \in {"print(item)", "continue", "{if (item == 7) continue; print(item)}",
                  "{if (item == 7) break; print(item)}"}}

\* ---- loops: OUTER { [if (q) JUMP;] [INNER { if (q) JUMP }] [if (q) JUMP;] }
\* Block contexts: 3 the outer loop's, 4 its body's, 5 the inner loop's, 6 its
\* body's.  A while loop tests p, a for loop runs over arr.
IfJump(kind, id, ctx) ==
    Tree("IfBoolExpr", id, "void", "",
         <<Leaf("Symbol", id + 1, "bool", "q", 0, ctx),
           Leaf(kind, id + 2, "unreachable", "", 0, ctx)>>, ctx)

\* the analyzer's contains_break: a break of the loop itself, not of a nested one
ContainsBreak(stmts) ==
    \E i \in 1 .. Len(stmts) :
        \/ stmts[i].type = "Break"
        \/ stmts[i].type = "IfBoolExpr" /\ stmts[i].kids[2].type = "Break"

ForItem(ctx) == IF ctx = 3 THEN "item" ELSE "item2"
ForIndexName(ctx) == IF ctx = 3 THEN "i" ELSE "i2"
ForVars(kind, ctx) ==
    IF kind = "for"
    THEN <<Var(ForItem(ctx), "u8", 0, ctx), Var(ForIndexName(ctx), "isize", 0, ctx)>>
    ELSE <<>>

\* a forever loop without a break never ends: its type is unreachable
Loop(kind, id, ctx, outer_ctx, stmts) ==
    LET body == Tree("Block", id + 2, stmts[Len(stmts)].ty, "", stmts, ctx + 1) IN
    CASE kind = "for" ->
            Node("ForExpr", id, "void", ForItem(ctx), ForIndexName(ctx), 0,
                 <<Leaf("Symbol", id + 1, "[N]u8", "arr", 0, outer_ctx), body>>, ctx)
      [] kind = "while" ->
            [Node("WhileExpr", id, "void", "", "", 0,
                  <<Leaf("Symbol", id + 1, "bool", "p", 0, outer_ctx), body>>, ctx)
                EXCEPT !.contains_break = ContainsBreak(stmts)]
      [] kind = "forever" ->
            [Node("WhileExpr", id, IF ContainsBreak(stmts) THEN "void" ELSE "unreachable",
                  "", "", 0, <<Leaf("BoolLiteral", id + 1, "bool", "", 1, outer_ctx), body>>,
                  ctx)
                EXCEPT !.condition_always_true = TRUE,
                       !.contains_break = ContainsBreak(stmts)]

LoopStatements(oj, inner, ij) ==
    CASE inner = "none" -> <<IfJump(oj, 30, 4)>>
      [] oj = "none" -> <<Loop(inner, 10, 5, 4, <<IfJump(ij, 20, 6)>>)>>
      [] oj = "Continue" -> <<IfJump(oj, 30, 4), Loop(inner, 10, 5, 4, <<IfJump(ij, 20, 6)>>)>>
      [] OTHER -> <<Loop(inner, 10, 5, 4, <<IfJump(ij, 20, 6)>>), IfJump(oj, 30, 4)>>

LoopParams(outer, inner) ==
    <<Var("p", "bool", 0, 90), Var("q", "bool", 1, 91)>>
    \o (IF "for" \in {outer, inner} THEN <<Var("arr", "[N]u8", 2, 92)>> ELSE <<>>)

LoopProgram(outer, oj, inner, ij) ==
    LET loop == Loop(outer, 5, 3, 2, LoopStatements(oj, inner, ij)) IN
    CodeGen(<<"loop", outer, oj, inner, ij>>,
        <<LoopParams(outer, inner), <<>>, ForVars(outer, 3), <<>>, ForVars(inner, 5), <<>>>>,
        "void", loop.ty, <<loop>>)

LoopKinds == {"while", "forever", "for"}

\* no statement follows a loop that never ends
LoopPrograms ==
    {LoopProgram(outer, oj, "none", "none") :
        outer \in LoopKinds, oj \in {"Break", "Continue", "ReturnExpr"}}
    \cup {LoopProgram(c[1], c[2], c[3], c[4]) :
            c \in {d \in {"while", "forever"} \X {"none", "Break", "Continue"}
                         \X {"while", "forever"} \X {"Break", "Continue"} :
                      d[3] = "forever" /\ d[4] = "Continue" => d[2] # "Break"}}
    \cup {LoopProgram("for", "Continue", "while", "Break"),
          LoopProgram("for", "Break", "forever", "Break"),
          LoopProgram("while", "Continue", "for", "Continue"),
          LoopProgram("forever", "Break", "for", "Break"),
          LoopProgram("for", "none", "for", "Break")}

\* ---- var m : ?u8 = v;
\*      for (arr) |item| { while (p) { if (const x ?= m) { print(x) } break } }
\* Block contexts: 3 the for loop's, 4 its body's, 5 the while loop's, 6 its
\* body's, 7 the if's, 8 its then block's.
ScopesProgram ==
    CodeGen(<<"scopes">>,
        <<<<Var("arr", "[N]u8", 0, 90), Var("p", "bool", 1, 91), Var("v", "u8", 2, 92)>>,
          <<Var("m", "?u8", 0, 3)>>, ForVars("for", 3), <<>>, <<>>, <<>>,
          <<Var("x", "u8", 0, 20)>>, <<>>>>,
        "void", "void",
        <<Tree("VariableDeclaration", 3, "void", "m",
               <<MaybeCast(Leaf("Symbol", 4, "u8", "v", 0, 2), "?u8")>>, 2),
          Loop("for", 5, 3, 2,
               <<Loop("while", 10, 5, 4,
                      <<Tree("IfVarExpr", 20, "void", "x",
                             <<Leaf("Symbol", 21, "?u8", "m", 0, 6),
                               Tree("Block", 22, "void", "",
                                    <<PrintCall(23, Leaf("Symbol", 24, "u8", "x", 0, 8), 8)>>,
                                    8)>>, 7),
                        Leaf("Break", 30, "unreachable", "", 0, 6)>>)>>)>>)

\* ---- goto and labels.  The label table has an entry for every label of the
\* function; entered_from_fallthrough is the analyzer's.
Label(id, name, ctx) == Leaf("Label", id, "void", name, 0, ctx)
Goto(id, name, ctx) == Leaf("Goto", id, "unreachable", name, 0, ctx)
PrintLit(id, n, ctx) == PrintCall(id, Leaf("NumberLiteral", id + 1, "u8", "", n, ctx), ctx)
IfGoto(id, name, ctx) ==
    Tree("IfBoolExpr", id, "void", "",
         <<Leaf("Symbol", id + 1, "bool", "p", 0, ctx), Goto(id + 2, name, ctx)>>, ctx)

LabelStatements(form) ==
    CASE form = "print; goto done; done: print" ->
            <<PrintLit(3, 1, 2), Goto(5, "done", 2), Label(6, "done", 2), PrintLit(7, 2, 2)>>
      [] form = "print; done: print" ->
            <<PrintLit(3, 1, 2), Label(6, "done", 2), PrintLit(7, 2, 2)>>
      [] form = "if (p) goto done; print; done: print" ->
            <<IfGoto(10, "done", 2), PrintLit(3, 1, 2), Label(6, "done", 2),
              PrintLit(7, 2, 2)>>
      [] form = "again: if (p) goto again" ->
            <<Label(6, "again", 2), IfGoto(10, "again", 2)>>
      [] form = "print; {goto done; done: print}" ->
            <<PrintLit(3, 1, 2),
              Tree("Block", 14, "void", "",
                   <<Goto(5, "done", 3), Label(6, "done", 3), PrintLit(7, 2, 3)>>, 3)>>
      [] form = "print; {print; done: print}" ->
            <<PrintLit(3, 1, 2),
              Tree("Block", 14, "void", "",
                   <<PrintLit(15, 3, 3), Label(6, "done", 3), PrintLit(7, 2, 3)>>, 3)>>
      [] form = "if (p) goto done; {print; done: print}" ->
            <<IfGoto(10, "done", 2),
              Tree("Block", 14, "void", "",
                   <<PrintLit(15, 3, 3), Label(6, "done", 3), PrintLit(7, 2, 3)>>, 3)>>

LabelForms ==
    {"print; goto done; done: print", "print; done: print",
     "if (p) goto done; print; done: print", "again: if (p) goto again",
     "print; {goto done; done: print}", "print; {print; done: print}",
     "if (p) goto done; {print; done: print}"}

LabelProgram(form) ==
    [CodeGen(<<"label", form>>, <<<<Var("p", "bool", 0, 90)>>, <<>>, <<>>>>, "void", "void",
             LabelStatements(form))
        EXCEPT !.labels =
            IF form = "again: if (p) goto again"
            THEN "again" :> [basic_block |-> 0, entered_from_fallthrough |-> TRUE]
            ELSE "done" :> [basic_block |-> 0,
                            entered_from_fallthrough |->
                                form \notin {"print; goto done; done: print",
                                             "print; {goto done; done: print}"}]]

LabelPrograms == {LabelProgram(form) : form \in LabelForms}

\* ---- return p and B, return p or B, for a B that never yields a value
UnreachableOperand(kind, id) ==
    CASE kind = "abort()" -> Tree("FnCallExpr", id, "unreachable", "abort", <<>>, 2)
      [] kind = "return false" ->
            Tree("ReturnExpr", id, "unreachable", "",
                 <<Leaf("BoolLiteral", id + 1, "bool", "", 0, 2)>>, 2)

UnreachableProgram(op, kb) ==
    CodeGen(<<"unreachable", op, kb>>, <<BoolParams, <<>>>>, "bool", "unreachable",
        <<Tree("ReturnExpr", 2, "unreachable", "",
               <<Tree("BinOpExpr", 3, "bool", op,
                      <<Leaf("Symbol", 10, "bool", "p", 0, 2), UnreachableOperand(kb, 20)>>,
                      2)>>, 2)>>)

UnreachablePrograms ==
    {UnreachableProgram(op, kb) :
        op \in {"BinOpTypeBoolAnd", "BinOpTypeBoolOr"}, kb \in {"abort()", "return false"}}

\* ---- if (const y ?= SRC) { print(y) } else { print(d) }
\* Block contexts: 3 the if's (it declares y), 4 and 5 those of its arms.
IfVarProgram(src) ==
    CodeGen(<<"ifvar", src>>,
        <<MaybeParams, <<>>, <<Var("y", "u8", 0, 3)>>, <<>>, <<>>>>, "void", "void",
        <<Tree("IfVarExpr", 3, "void", "y",
               <<MaybeSource(src, 4),
                 Tree("Block", 10, "void", "",
                      <<PrintCall(11, Leaf("Symbol", 12, "u8", "y", 0, 4), 4)>>, 4),
                 Tree("Block", 20, "void", "",
                      <<PrintCall(21, Leaf("Symbol", 22, "u8", "d", 0, 5), 5)>>, 5)>>, 3)>>)

IfVarPrograms == {IfVarProgram(src) : src \in {"v", "5", "null"}}

\* ---- fn f(pr: Pair) { var y : Foo = pr.f; }
FieldProgram ==
    CodeGen(<<"field", "pr.f">>,
        <<<<Var("pr", "Pair", 0, 90)>>, <<Var("y", "Foo", 0, 3)>>>>, "void", "void",
        <<Tree("VariableDeclaration", 3, "void", "y",
               <<Node("FieldAccessExpr", 4, "Foo", "f", "", 0,
                      <<Leaf("Symbol", 5, "Pair", "pr", 0, 2)>>, 2)>>, 2)>>)

\* ---- var u = print(d); put(ARG, d)    var u = print(d); printf(ptr, ARG)
CallArg(arg, id) ==
    CASE arg = "d" -> Leaf("Symbol", id, "u8", "d", 0, 2)
      [] arg = "u" -> Leaf("Symbol", id, "void", "u", 0, 2)
      [] arg = "print(d)" -> PrintCall(id, Leaf("Symbol", id + 1, "u8", "d", 0, 2), 2)

CallProgram(callee, arg) ==
    CodeGen(<<"call", callee, arg>>,
        <<<<Var("ptr", "&u8", 0, 90), Var("d", "u8", 1, 91)>>, <<Var("u", "void", 0, 3)>>>>,
        "void", "void",
        <<Tree("VariableDeclaration", 3, "void", "u",
               <<PrintCall(4, Leaf("Symbol", 5, "u8", "d", 0, 2), 2)>>, 2),
          Tree("FnCallExpr", 6, "void", callee,
               IF callee = "put"
               THEN <<CallArg(arg, 10), Leaf("Symbol", 7, "u8", "d", 0, 2)>>
               ELSE <<Leaf("Symbol", 7, "&u8", "ptr", 0, 2), CallArg(arg, 10)>>, 2)>>)

\* ---- var u = print(d); var z0 : [0]u8; var s = T{.a = d, .v = u, .b = 258} for
\* ---- T = Bar, and T{.a = d, .z = z0, .b = 258} for T = Baz
StructValueField(id, name, expr) == Tree("StructValueField", id, "void", name, <<expr>>, 2)

InitProgram(T) ==
    CodeGen(<<"init", T>>,
        <<<<Var("d", "u8", 0, 90)>>,
          <<Var("u", "void", 0, 3), Var("z0", "[0]u8", 0, 6), Var("s", T, 0, 7)>>>>,
        "void", "void",
        <<Tree("VariableDeclaration", 3, "void", "u",
               <<PrintCall(4, Leaf("Symbol", 5, "u8", "d", 0, 2), 2)>>, 2),
          Tree("VariableDeclaration", 6, "void", "z0", <<>>, 2),
          Tree("VariableDeclaration", 7, "void", "s",
               <<Tree("ContainerInitExpr", 8, T, "",
                      <<StructValueField(10, "a", Leaf("Symbol", 11, "u8", "d", 0, 2)),
                        IF T = "Bar"
                        THEN StructValueField(12, "v", Leaf("Symbol", 13, "void", "u", 0, 2))
                        ELSE StructValueField(12, "z", Leaf("Symbol", 13, "[0]u8", "z0", 0, 2)),
                        StructValueField(14, "b",
                                         Leaf("NumberLiteral", 15, "isize", "", 258, 2))>>,
                      2)>>, 2)>>)

InitPrograms == {InitProgram(T) : T \in {"Bar", "Baz"}}

\* ---- var e : En = En.One(d), En.One({ print(10); d }), En.Three()
EnumPayload(arg) ==
    CASE arg = "d" -> <<Leaf("Symbol", 13, "u8", "d", 0, 2)>>
      [] arg = "{print;d}" -> <<PrintBlock(10, Leaf("Symbol", 13, "u8", "d", 0, 3), 3)>>
      [] arg = "none" -> <<>>

EnumProgram(arg) ==
    CodeGen(<<"enum", arg>>,
        <<<<Var("d", "u8", 0, 90)>>, <<Var("e", "En", 0, 3)>>, <<>>>>, "void", "void",
        <<Tree("VariableDeclaration", 3, "void", "e",
               <<Node("FnCallExpr", 4, "En", IF arg = "none" THEN "Three" ELSE "One", "En",
                      IF arg = "none" THEN 1 ELSE 0, EnumPayload(arg), 2)>>, 2)>>)

EnumPrograms == {EnumProgram(arg) : arg \in {"d", "{print;d}", "none"}}

CallPrograms ==
    {CallProgram("put", arg) : arg \in {"u", "print(d)"}}
    \cup {CallProgram("printf", arg) : arg \in {"d", "u", "print(d)"}}

\* ---- fn f(w: S) -> T { return w; } with the implicit cast of w to T
CastTypes == {"u8", "i8", "isize"}

CastProgram(S, T) ==
    CodeGen(<<"cast", S, T>>, <<<<Var("w", S, 0, 90)>>, <<>>>>, T, "unreachable",
        <<Tree("ReturnExpr", 2, "unreachable", "",
               <<[Leaf("Symbol", 3, S, "w", 0, 2)
                     EXCEPT !.implicit_cast = Cast(CastOpIntWidenOrShorten, T, 0)]>>, 2)>>)

CastPrograms == {CastProgram(S, T) : S \in CastTypes, T \in CastTypes}

Programs ==
    EnumPrograms \cup CastPrograms \cup CallPrograms \cup InitPrograms \cup {FieldProgram} \cup IfVarPrograms
    \cup BoolPrograms \cup SlicePrograms \cup MaybePrograms \cup IfPrograms \cup AssignPrograms
    \cup ForPrograms \cup LoopPrograms \cup {ScopesProgram} \cup LabelPrograms
    \cup UnreachablePrograms



(***************************************************************************)
(* Running the function do_code_gen built.  Memory is a sequence of bytes, *)
(* address a is mem[a] and address 0 is null; the caller's data lies       *)
(* below the stack.  regs holds the little-endian bytes of each            *)
(* instruction's result, regs[0] the returned value.  An access outside    *)
(* memory, a misaligned llvm.memcpy/llvm.memset and the `unreachable`      *)
(* instruction are undefined behaviour: phase "ub".                        *)
(***************************************************************************)
RECURSIVE Decode(_)
Decode(bytes) == IF bytes = <<>> THEN 0 ELSE bytes[1] + 256 * Decode(Tail(bytes))

RECURSIVE Encode(_, _)
Encode(n, size) == IF size = 0 THEN <<>> ELSE <<n % 256>> \o Encode(n \div 256, size - 1)

RECURSIVE Pow256(_)
Pow256(size) == IF size = 0 THEN 1 ELSE 256 * Pow256(size - 1)

Modulus(ty) == IF ty = LLVMInt1Type THEN 2 ELSE Pow256(SizeOf(ty))
Signed(n, ty) == IF 2 * n >= Modulus(ty) THEN n - Modulus(ty) ELSE n

ArrAddr == 1
SlAddr == AlignUp(ArrAddr + ArrayLen, PointerSizeBytes)
FoAddr == SlAddr + 2 * PointerSizeBytes
FdAddr == FoAddr + SizeOf(type_ref("Foo"))
StackBase == FdAddr + SizeOf(type_ref("Foo"))

EncodeFoo(a, b, junk) ==
    [i \in 1 .. SizeOf(type_ref("Foo")) |->
        IF i = 1 THEN a
        ELSE IF i > FieldOffset(type_ref("Foo"), 1)
        THEN Encode(b, PointerSizeBytes)[i - FieldOffset(type_ref("Foo"), 1)]
        ELSE junk]

\* what the caller passes: its array, a slice of it, two structs
ArrayContents == {"7,8,9..", "5,7,9..", "1,2,3.."}
ArrayElem(contents, k) ==
    CASE contents = "7,8,9.." -> 7 + k
      [] contents = "5,7,9.." -> 5 + 2 * k
      [] contents = "1,2,3.." -> 1 + k
SliceOffsets == {0, 1}
JunkBytes == {0, 255}

CallerMemory(contents, off, junk) ==
    [a \in 1 .. StackBase - 1 |->
        IF a < ArrAddr + ArrayLen THEN ArrayElem(contents, a - ArrAddr)
        ELSE IF a < SlAddr THEN junk
        ELSE IF a < SlAddr + PointerSizeBytes
        THEN Encode(ArrAddr + off, PointerSizeBytes)[a - SlAddr + 1]
        ELSE IF a < FoAddr
        THEN Encode(ArrayLen - off, PointerSizeBytes)[a - SlAddr - PointerSizeBytes + 1]
        ELSE IF a < FdAddr THEN EncodeFoo(3, 258, junk)[a - FoAddr + 1]
        ELSE EncodeFoo(4, 1, junk)[a - FdAddr + 1]]

\* the arguments of the cast programs: 3 and -56 (200) in a byte, 258 and
\* -2 in an isize
CastByte == <<3, 200>>
CastWide == <<258, Pow256(PointerSizeBytes) - 2>>

ArgDomain(var) ==
    CASE var.name = "arr" -> {Encode(ArrAddr, PointerSizeBytes)}
      [] var.name = "ptr" -> {Encode(ArrAddr, PointerSizeBytes)}
      [] var.name = "sl" -> {Encode(SlAddr, PointerSizeBytes)}
      [] var.name = "fo" -> {Encode(FoAddr, PointerSizeBytes)}
      [] var.name = "fd" -> {Encode(FdAddr, PointerSizeBytes)}
      [] var.name = "w" ->
            IF var.type = "isize"
            THEN {Encode(CastWide[k], PointerSizeBytes) : k \in 1 .. 2}
            ELSE {<<CastByte[k]>> : k \in 1 .. 2}
      [] var.type = "bool" -> {<<0>>, <<1>>}
      [] var.type = "u8" -> {<<0>>, <<200>>}
      [] var.type = "isize" -> {Encode(1, PointerSizeBytes), Encode(258, PointerSizeBytes)}

RECURSIVE ArgLists(_, _)
ArgLists(params, i) ==
    IF i > Len(params) THEN {<<>>}
    ELSE {<<a>> \o rest : a \in ArgDomain(params[i]), rest \in ArgLists(params, i + 1)}

Uses(gg, names) ==
    \E i \in 1 .. Len(gg.all_block_contexts[1].variable_list) :
        gg.all_block_contexts[1].variable_list[i].name \in names

\* room for every alloca of the entry block
StackSize(gg) ==
    LET is == gg.blocks[1].instrs
        RECURSIVE Sum(_)
        Sum(i) == IF i = 0 THEN 0
                  ELSE Sum(i - 1) + (IF is[i].op = "alloca"
                                     THEN 2 * SizeOf(LLVMGetElementType(is[i].ty)) ELSE 0)
    IN Sum(Len(is))

EvalBytes(v) ==
    CASE v.k = "const" -> Encode(v.n % Modulus(v.ty), SizeOf(v.ty))
      [] v.k = "param" -> args[v.n + 1]
      [] v.k = "inst" -> regs[v.n]

EvalInt(v) == IF v.k = "const" THEN v.n ELSE Decode(EvalBytes(v)) % Modulus(v.ty)

InMemory(addr, size) == addr >= 1 /\ addr + size - 1 <= Len(mem)

Running == phase = "running"
Cur == InstrAt(g, pc)

\* the instruction at pc has been executed
Step(ins) == ran' = ran \cup {ins.id} /\ last' = ins.id /\ UNCHANGED bnvars

Advance(ins) ==
    /\ pc' = <<pc[1], pc[2] + 1>>
    /\ Step(ins)
    /\ UNCHANGED <<g, phase, args, prev_block>>

Fault(ins) ==
    /\ phase' = "ub"
    /\ Step(ins)
    /\ UNCHANGED <<g, args, pc, prev_block, regs, mem, sp, out>>

SetReg(ins, bytes) == regs' = (ins.id :> bytes) @@ regs



ExecAlloca ==
    /\ Running /\ Cur.op = "alloca"
    /\ LET ty == LLVMGetElementType(Cur.ty)
           addr == AlignUp(sp, IF Cur.n = 0 THEN AlignOf(ty) ELSE Cur.n)
       IN IF InMemory(addr, SizeOf(ty))
          THEN /\ SetReg(Cur, Encode(addr, PointerSizeBytes))
               /\ sp' = addr + SizeOf(ty)
               /\ Advance(Cur)
               /\ UNCHANGED <<mem, out>>
          ELSE Fault(Cur)

ExecLoad ==
    /\ Running /\ Cur.op = "load"
    /\ LET addr == EvalInt(Cur.args[1])
           size == SizeOf(Cur.ty)
       IN IF InMemory(addr, size)
          THEN /\ SetReg(Cur, SubSeq(mem, addr, addr + size - 1))
               /\ Advance(Cur)
               /\ UNCHANGED <<mem, sp, out>>
          ELSE Fault(Cur)

ExecStore ==
    /\ Running /\ Cur.op = "store"
    /\ LET bytes == EvalBytes(Cur.args[1])
           addr == EvalInt(Cur.args[2])
       IN IF InMemory(addr, Len(bytes))
          THEN /\ mem' = [a \in 1 .. Len(mem) |->
                             IF a >= addr /\ a < addr + Len(bytes) THEN bytes[a - addr + 1]
                             ELSE mem[a]]
               /\ Advance(Cur)
               /\ UNCHANGED <<regs, sp, out>>
          ELSE Fault(Cur)

ExecStructGEP ==
    /\ Running /\ Cur.op = "structgep"
    /\ SetReg(Cur, Encode(EvalInt(Cur.args[1])
                          + FieldOffset(LLVMGetElementType(Cur.args[1].ty), Cur.n),
                          PointerSizeBytes))
    /\ Advance(Cur)
    /\ UNCHANGED <<mem, sp, out>>

ExecInBoundsGEP ==
    /\ Running /\ Cur.op = "gep"
    /\ LET index == Cur.args[Len(Cur.args)]
           scaled == Signed(EvalInt(index), index.ty) * SizeOf(LLVMGetElementType(Cur.ty))
       IN SetReg(Cur, Encode((EvalInt(Cur.args[1]) + scaled) % Pow256(PointerSizeBytes),
                             PointerSizeBytes))
    /\ Advance(Cur)
    /\ UNCHANGED <<mem, sp, out>>

ExecBitCast ==
    /\ Running /\ Cur.op = "bitcast"
    /\ SetReg(Cur, EvalBytes(Cur.args[1]))
    /\ Advance(Cur)
    /\ UNCHANGED <<mem, sp, out>>

\* sext, zext and trunc of an integer
ExecCast ==
    /\ Running /\ Cur.op \in {"sext", "zext", "trunc"}
    /\ LET x == EvalInt(Cur.args[1])
           r == IF Cur.op = "sext" THEN Signed(x, Cur.args[1].ty) ELSE x
       IN SetReg(Cur, Encode(r % Modulus(Cur.ty), SizeOf(Cur.ty)))
    /\ Advance(Cur)
    /\ UNCHANGED <<mem, sp, out>>

ExecBinOp ==
    /\ Running /\ Cur.op \in {"add", "sub"}
    /\ LET x == EvalInt(Cur.args[1])
           y == EvalInt(Cur.args[2])
           r == IF Cur.op = "add" THEN x + y ELSE x - y
       IN SetReg(Cur, Encode(r % Modulus(Cur.ty), SizeOf(Cur.ty)))
    /\ Advance(Cur)
    /\ UNCHANGED <<mem, sp, out>>

ExecICmp ==
    /\ Running /\ Cur.op = "icmp"
    /\ LET ty == Cur.args[1].ty
           x == EvalInt(Cur.args[1])
           y == EvalInt(Cur.args[2])
           r == CASE Cur.name = "LLVMIntEQ" -> x = y
                  [] Cur.name = "LLVMIntNE" -> x # y
                  [] Cur.name = "LLVMIntULT" -> x < y
                  [] Cur.name = "LLVMIntSLT" -> Signed(x, ty) < Signed(y, ty)
       IN SetReg(Cur, <<IF r THEN 1 ELSE 0>>)
    /\ Advance(Cur)
    /\ UNCHANGED <<mem, sp, out>>

Jump(ins, dest) ==
    /\ pc' = <<dest, 1>>
    /\ prev_block' = pc[1]
    /\ Step(ins)
    /\ UNCHANGED <<g, phase, args, regs, mem, sp, out>>

ExecBr == Running /\ Cur.op = "br" /\ Jump(Cur, Cur.blocks[1])

ExecCondBr ==
    /\ Running /\ Cur.op = "condbr"
    /\ Jump(Cur, IF EvalInt(Cur.args[1]) = 1 THEN Cur.blocks[1] ELSE Cur.blocks[2])

ExecPhi ==
    /\ Running /\ Cur.op = "phi"
    /\ LET j == CHOOSE j \in 1 .. Len(Cur.blocks) : Cur.blocks[j] = prev_block
       IN SetReg(Cur, EvalBytes(Cur.args[j]))
    /\ Advance(Cur)
    /\ UNCHANGED <<mem, sp, out>>

\* print, put and printf write their last argument; abort() does not return
ExecCall ==
    /\ Running /\ Cur.op = "call" /\ Cur.name \in {"print", "put", "printf", "abort"}
    /\ IF Cur.name # "abort"
       THEN /\ out' = Append(out, EvalInt(Cur.args[Len(Cur.args)]))
            /\ Advance(Cur)
            /\ UNCHANGED <<regs, mem, sp>>
       ELSE /\ phase' = "exited"
            /\ Step(Cur)
            /\ UNCHANGED <<g, args, pc, prev_block, regs, mem, sp, out>>

Aligned(addr, align) == align = 0 \/ addr % align = 0

ExecMemcpy ==
    /\ Running /\ Cur.op = "call" /\ Cur.name = "memcpy"
    /\ LET dest == EvalInt(Cur.args[1])
           src == EvalInt(Cur.args[2])
           size == EvalInt(Cur.args[3])
           align == EvalInt(Cur.args[4])
       IN IF /\ InMemory(dest, size) /\ InMemory(src, size)
             /\ Aligned(dest, align) /\ Aligned(src, align)
             /\ (dest + size <= src \/ src + size <= dest \/ dest = src)
          THEN /\ mem' = [a \in 1 .. Len(mem) |->
                             IF a >= dest /\ a < dest + size THEN mem[src + (a - dest)]
                             ELSE mem[a]]
               /\ Advance(Cur)
               /\ UNCHANGED <<regs, sp, out>>
          ELSE Fault(Cur)

ExecMemset ==
    /\ Running /\ Cur.op = "call" /\ Cur.name = "memset"
    /\ LET dest == EvalInt(Cur.args[1])
           size == EvalInt(Cur.args[3])
       IN IF InMemory(dest, size) /\ Aligned(dest, EvalInt(Cur.args[4]))
          THEN /\ mem' = [a \in 1 .. Len(mem) |->
                             IF a >= dest /\ a < dest + size THEN EvalInt(Cur.args[2])
                             ELSE mem[a]]
               /\ Advance(Cur)
               /\ UNCHANGED <<regs, sp, out>>
          ELSE Fault(Cur)

ExecRet ==
    /\ Running /\ Cur.op = "ret"
    /\ phase' = "returned"
    /\ regs' = (0 :> (IF Len(Cur.args) = 1 THEN EvalBytes(Cur.args[1]) ELSE <<>>)) @@ regs
    /\ Step(Cur)
    /\ UNCHANGED <<g, args, pc, prev_block, mem, sp, out>>

ExecUnreachable == Running /\ Cur.op = "unreachable" /\ Fault(Cur)

(***************************************************************************)
(* The compiler run and the call of the compiled function.                 *)
(***************************************************************************)
LowerInit ==
    /\ bn_a = NoBn /\ bn_b = NoBn /\ bn_t = NoBn /\ bn_r = NoBn /\ bn_pc = "idle"
    /\ callT = NoCall /\ callR = NoCall /\ query = NoQuery /\ halt = "idle"
    /\ \E prog \in Programs, build_type \in {"CodeGenBuildTypeDebug", "CodeGenBuildTypeRelease"},
          ndebug \in BOOLEAN :
          g = [prog EXCEPT !.build_type = build_type, !.ndebug = ndebug]
    /\ phase = "analyzed" /\ args = <<>> /\ pc = <<0, 0>> /\ prev_block = 0
    /\ regs = <<>> /\ mem = <<>> /\ sp = 0 /\ out = <<>> /\ ran = {} /\ last = 0

DoCodeGen ==
    /\ phase = "analyzed"
    /\ g' = do_code_gen(g)
    /\ phase' = IF g'.crashed THEN "sigsegv" ELSE IF g'.aborted THEN "abort" ELSE "generated"
    /\ UNCHANGED <<args, pc, prev_block, regs, mem, sp, out, ran, last>>
    /\ UNCHANGED bnvars

\* a build with NDEBUG hands the backend a module the verifier rejects
BackendInvalid ==
    /\ phase = "generated" /\ LLVMVerifyModule(g) = FALSE
    /\ phase' = "ub"
    /\ UNCHANGED <<g, args, pc, prev_block, regs, mem, sp, out, ran, last>>
    /\ UNCHANGED bnvars

CallFn ==
    /\ phase = "generated" /\ LLVMVerifyModule(g) = TRUE
    /\ \E argv \in ArgLists(g.all_block_contexts[1].variable_list, 1),
          contents \in IF Uses(g, {"arr", "sl", "ptr"}) THEN ArrayContents ELSE {"7,8,9.."},
          off \in IF Uses(g, {"sl"}) THEN SliceOffsets ELSE {0},
          junk \in JunkBytes :
          /\ args' = argv
          /\ mem' = CallerMemory(contents, off, junk) \o [i \in 1 .. StackSize(g) |-> junk]
    /\ sp' = StackBase
    /\ pc' = <<1, 1>> /\ prev_block' = 0
    /\ phase' = "running"
    /\ UNCHANGED <<g, regs, out, ran, last>>
    /\ UNCHANGED bnvars

LowerNext ==
    \/ DoCodeGen \/ BackendInvalid \/ CallFn
    \/ ExecAlloca \/ ExecLoad \/ ExecStore \/ ExecStructGEP \/ ExecInBoundsGEP
    \/ ExecBitCast \/ ExecCast \/ ExecBinOp \/ ExecICmp \/ ExecBr \/ ExecCondBr \/ ExecPhi
    \/ ExecCall \/ ExecMemcpy \/ ExecMemset \/ ExecRet \/ ExecUnreachable

SpecLower == LowerInit /\ [][LowerNext]_vars

(***************************************************************************)
(* do_code_gen over a whole module, one pass of one of its three loops at  *)
(* a time.  Here g holds the module: global_vars, fn_protos and fn_defs as *)
(* the analyzer leaves them, loop and i the position in do_code_gen,       *)
(* value_ref and initializer of each global, the attributes of each        *)
(* prototype's parameters, and emitted, the passes made so far.            *)
(***************************************************************************)
\* ---- the modules compiled: globals gc (const, = 5) and gv, functions that
\* print a global, and one with pointer parameters
GlobalVar(name) == [Var(name, "u8", 0, 80) EXCEPT !.is_const = (name = "gc")]
GlobalExpr(name) == Leaf("NumberLiteral", 81, "u8", "", 5, 0)

UseGlobal(name) ==
    CodeGen(<<"use", name>>, <<<<>>, <<>>>>, "void", "void",
        <<PrintCall(3, Leaf("Symbol", 4, "u8", name, 0, 2), 2)>>)

FirstByte ==
    CodeGen(<<"first">>,
        <<<<Var("arr", "[N]u8", 0, 90), Var("ptr", "&u8", 1, 91), Var("v", "u8", 2, 92)>>,
          <<>>>>,
        "void", "void",
        <<PrintCall(3, Leaf("Symbol", 4, "u8", "v", 0, 2), 2)>>)

ParamDecl(var) == [type |-> var.type, is_noalias |-> var.name = "ptr"]

\* an extern prototype of two parameters: ext(first, second); noalias is
\* declared on pointers and on the aggregates passed by pointer only
ExternParams ==
    {[type |-> t, is_noalias |-> n] : t \in {"&u8", "&const u8", "Foo"}, n \in BOOLEAN}
ExternProtos ==
    {[name |-> <<"ext">>, params |-> <<[type |-> first, is_noalias |-> FALSE], second>>] :
        first \in {"void", "u8"}, second \in ExternParams}
FnProto(fn) ==
    [name |-> fn.label,
     params |-> [k \in 1 .. Len(fn.all_block_contexts[1].variable_list) |->
                    ParamDecl(fn.all_block_contexts[1].variable_list[k])]]
PrintProto == [name |-> <<"print">>, params |-> <<[type |-> "u8", is_noalias |-> FALSE]>>]

GlobalLists == {<<>>, <<"gc">>, <<"gv">>, <<"gc", "gv">>, <<"gv", "gc">>}

\* functions in any order of definition, each using only globals of the module
FnLists(globals) ==
    LET fns == {FirstByte} \cup {UseGlobal(globals[k]) : k \in 1 .. Len(globals)} IN
    {<<f>> : f \in fns} \cup {pair \in fns \X fns : pair[1] # pair[2]}

Module(globals, fns, extern_first, ext, ndebug) ==
    [global_vars |-> [k \in 1 .. Len(globals) |-> GlobalVar(globals[k])],
     fn_protos |-> IF extern_first
                   THEN <<PrintProto, ext>> \o [k \in 1 .. Len(fns) |-> FnProto(fns[k])]
                   ELSE [k \in 1 .. Len(fns) |-> FnProto(fns[k])] \o <<PrintProto, ext>>,
     fn_defs |-> fns,
     loop |-> "global_vars", i |-> 1, cur_fn |-> 0, cur_block_context |-> 0,
     value_ref |-> [k \in {globals[j] : j \in 1 .. Len(globals)} |-> nullptr],
     initializer |-> [k \in {globals[j] : j \in 1 .. Len(globals)} |-> nullptr],
     attributes |-> <<>>, emitted |-> <<>>,
     ndebug |-> ndebug, crashed |-> FALSE, aborted |-> FALSE]

\* ---- the three loops: each goes on while its index is within its list
global_vars_done_early(m) == m.i >= Len(m.global_vars)

global_vars_done(m) == m.i > Len(m.global_vars)

fn_protos_done(m) == m.i > Len(m.fn_protos)

fn_defs_done(m) == m.i > Len(m.fn_defs)

RECURSIVE next_loop(_)
next_loop(m) ==
    CASE m.loop = "global_vars" /\ global_vars_done(m) ->
            next_loop([m EXCEPT !.loop = "fn_protos", !.i = 1])
      [] m.loop = "fn_protos" /\ fn_protos_done(m) ->
            next_loop([m EXCEPT !.loop = "fn_defs", !.i = 1])
      [] m.loop = "fn_defs" /\ fn_defs_done(m) -> [m EXCEPT !.loop = "verify", !.i = 1]
      [] OTHER -> m

pass_done(m) == next_loop([m EXCEPT !.i = @ + 1, !.emitted = Append(@, <<m.loop, m.i>>)])

\* gen_expr at module level: no function, no block context, no insertion point
ModuleScope(m, expr) ==
    [CodeGen(<<"module">>, <<>>, "void", "void", <<expr>>)
        EXCEPT !.global_vars = m.global_vars, !.value_ref = m.value_ref]

LLVMAddGlobal(m, ty) == Val("global", m.i, LLVMPointerType(ty))

gen_global_var_init(m, var) ==
    IF var.is_const THEN gen_expr(ModuleScope(m, GlobalExpr(var.name)), GlobalExpr(var.name))
    ELSE R(ModuleScope(m, GlobalExpr(var.name)), LLVMConstNull(type_ref(var.type)))

gen_global_var_set(init_val, m, var) ==
    [m EXCEPT !.initializer[var.name] = init_val.val,
              !.value_ref[var.name] = LLVMAddGlobal(m, type_ref(var.type)),
              !.crashed = init_val.g.crashed \/ init_val.val.k = "nullptr"]

gen_global_var(m, var) == gen_global_var_set(gen_global_var_init(m, var), m, var)

\* the type of a parameter in the prototype: a pointer to const for the
\* types passed by pointer
param_type_is_pointer(param) ==
    handle_is_ptr(param.type) \/ type_table(param.type).id = TypeTableEntryIdPointer

param_type_is_const(param) == handle_is_ptr(param.type) \/ pointer_is_const(param.type)

\* the attributes added to each parameter that is not of size zero
param_attribute(param) ==
    IF param_type_is_pointer(param) /\ param.is_noalias THEN {"LLVMNoAliasAttribute"}
    ELSE IF param_type_is_pointer(param) /\ param_type_is_const(param)
    THEN {"LLVMReadOnlyAttribute"}
    ELSE {}

gen_fn_proto(m, fn_proto) ==
    [m EXCEPT !.attributes =
        (fn_proto.name :>
            [k \in 1 .. Len(SelectSeq(fn_proto.params,
                                      LAMBDA prm : size_in_bits(prm.type) # 0)) |->
                param_attribute(SelectSeq(fn_proto.params,
                                          LAMBDA prm : size_in_bits(prm.type) # 0)[k])])
        @@ @]

\* the function as the body's lowering sees it
fn_def_entry(m, fn_i) ==
    [m.fn_defs[fn_i] EXCEPT !.cur_fn = fn_i, !.cur_block_context = m.cur_block_context,
                            !.global_vars = m.global_vars, !.value_ref = m.value_ref,
                            !.build_type = "CodeGenBuildTypeDebug", !.ndebug = m.ndebug]

gen_fn_def_set(fn, m, fn_i) ==
    [m EXCEPT !.fn_defs[fn_i] = fn, !.cur_fn = fn_i,
              !.cur_block_context = fn.cur_block_context, !.crashed = fn.crashed]

gen_fn_def(m, fn_i) ==
    gen_fn_def_set(
        do_code_gen_fn_def(LLVMAppendBasicBlock(fn_def_entry(m, fn_i), "entry"),
                           fn_def_entry(m, fn_i)),
        m, fn_i)

Crashed(m) == IF m.crashed THEN "sigsegv" ELSE "analyzed"

ModuleInit ==
    /\ bn_a = NoBn /\ bn_b = NoBn /\ bn_t = NoBn /\ bn_r = NoBn /\ bn_pc = "idle"
    /\ callT = NoCall /\ callR = NoCall /\ query = NoQuery /\ halt = "idle"
    /\ \E globals \in GlobalLists, extern_first \in BOOLEAN, ndebug \in BOOLEAN :
          \E fns \in FnLists(globals), ext \in ExternProtos :
              g = next_loop(Module(globals, fns, extern_first, ext, ndebug))
    /\ phase = "analyzed" /\ args = <<>> /\ pc = <<0, 0>> /\ prev_block = 0
    /\ regs = <<>> /\ mem = <<>> /\ sp = 0 /\ out = <<>> /\ ran = {} /\ last = 0

Idle == UNCHANGED <<args, pc, prev_block, regs, mem, sp, out, ran, last>> /\ UNCHANGED bnvars

GenGlobalVar ==
    /\ phase = "analyzed" /\ g.loop = "global_vars"
    /\ g' = pass_done(gen_global_var(g, g.global_vars[g.i]))
    /\ phase' = Crashed(g')
    /\ Idle

GenFnProto ==
    /\ phase = "analyzed" /\ g.loop = "fn_protos"
    /\ g' = pass_done(gen_fn_proto(g, g.fn_protos[g.i]))
    /\ phase' = Crashed(g')
    /\ Idle

GenFnDef ==
    /\ phase = "analyzed" /\ g.loop = "fn_defs"
    /\ g' = pass_done(gen_fn_def(g, g.i))
    /\ phase' = Crashed(g')
    /\ Idle

\* the verifier runs over the whole module, unless the build has NDEBUG
VerifyModule ==
    /\ phase = "analyzed" /\ g.loop = "verify"
    /\ g' = [g EXCEPT !.loop = "done",
                      !.aborted = ~g.ndebug /\ \E k \in 1 .. Len(g.fn_defs) :
                                                   ~LLVMVerifyModule(g.fn_defs[k])]
    /\ phase' = IF g'.aborted THEN "abort" ELSE "generated"
    /\ Idle

ModuleNext == GenGlobalVar \/ GenFnProto \/ GenFnDef \/ VerifyModule

SpecModule == ModuleInit /\ [][ModuleNext]_vars



(***************************************************************************)
(* Claims about the bignum kernel (checked under SpecBignum).              *)
(***************************************************************************)
IsInt(bn) == bn.kind = BigNumKindInt
IsNormalized(bn) == ~(IsInt(bn) /\ bn.data = 0 /\ bn.is_negative)

RECURSIVE PopCount(_)
PopCount(x) == IF x <= 0 THEN 0 ELSE (x % 2) + PopCount(x \div 2)

\* C2: for integer a and b, when bignum_add(t, a, b) and then bignum_sub(r, t, b)
\* both report no overflow, r equals a as judged by bignum_cmp_eq.
C2_AddSubRoundTrip ==
    (/\ bn_pc = "r"
     /\ callT.op = "add" /\ IsInt(callT.x) /\ ~callT.ret
     /\ callR.op = "sub" /\ ~callR.ret)
        => bignum_cmp_eq(bn_r, callT.x)

IntProducers == {"negate", "add", "sub", "mul", "div", "rem", "truncate"}

\* C3: every integer produced by init_signed, init_unsigned, negate, add, sub, mul,
\* div, rem or truncate from normalized integer operands is normalized (magnitude 0
\* implies is_negative = FALSE), whether or not the call reported overflow; and
\* a - a is zero with non-negative sign.
C3_NormalizationInvariant ==
    /\ \A x \in INT64_MIN .. INT64_MAX : IsNormalized(bignum_init_signed(x))
    /\ \A x \in Word : IsNormalized(bignum_init_unsigned(x))
    /\ (/\ bn_pc \in {"t", "tt", "r"} /\ callT.op \in IntProducers /\ IsInt(callT.x)
        /\ IsNormalized(callT.x) /\ IsNormalized(callT.y)) => IsNormalized(bn_t)
    /\ (/\ bn_pc = "r" /\ callR.op \in IntProducers /\ IsInt(callR.x)
        /\ IsNormalized(callR.x) /\ IsNormalized(callR.y)) => IsNormalized(bn_r)
    /\ (/\ bn_pc = "t" /\ callT.op = "sub" /\ IsInt(callT.x) /\ callT.x = callT.y
        /\ IsNormalized(callT.x)) => (bn_t.data = 0 /\ ~bn_t.is_negative)

\* C4: for a and b of the same kind, cmp_eq(a,b) = cmp_eq(b,a), cmp_lt(a,b) =
\* cmp_gt(b,a), and cmp_lte(a,b) = (cmp_lt(a,b) \/ cmp_eq(a,b)).
C4_ComparisonLaws ==
    /\ query.op = "cmp_eq" => query.flag = bignum_cmp_eq(query.y, query.x)
    /\ query.op = "cmp_lt" => query.flag = bignum_cmp_gt(query.y, query.x)
    /\ query.op = "cmp_lte" =>
           query.flag = (bignum_cmp_lt(query.x, query.y) \/ bignum_cmp_eq(query.x, query.y))

\* C5 as stated: for every integer a and width w, 0 < w <= 64, clz(a, w) +
\* popcount(a) <= w (popcount of a's two's-complement word), and ctz(0, w) = w.
C5_ClzPopcount ==
    /\ (query.op = "clz" /\ query.n > 0) => query.val + PopCount(query.tc) <= query.n
    /\ (query.op = "ctz" /\ query.n > 0 /\ query.x.data = 0) => query.val = query.n

\* C5 as amended: clz(a, w) + popcount(a's two's-complement word truncated to its
\* low w bits) <= w, and ctz(0, w) = w.
C5_ClzPopcountTruncated ==
    /\ (query.op = "clz" /\ query.n > 0) =>
           query.val + PopCount(query.tc % Pow2(query.n)) <= query.n
    /\ (query.op = "ctz" /\ query.n > 0 /\ query.x.data = 0) => query.val = query.n

\* clz of a word with set bits above the width and leading zeros inside it
C5_Witness ==
    /\ query.op = "clz" /\ query.n > 0 /\ query.n < WordBits
    /\ query.tc >= Pow2(query.n)
    /\ query.val > 0 /\ query.val < query.n


(***************************************************************************)
(* Claims about the lowering (checked under SpecLower).  g.exprs[id] is    *)
(* what gen_expr returned for node id and the range of instructions it     *)
(* built meanwhile.                                                        *)
(***************************************************************************)
InstrsOf(id) == g.exprs[id].lo .. (g.exprs[id].hi - 1)
ValueOf(id) == g.exprs[id].val
Evaluated(v) == v.k = "inst" => v.n \in ran
RanSome(id) == ran \cap InstrsOf(id) # {}
Executing == phase \in {"running", "returned", "exited", "ub"}

\* the value of the left operand that decides the result without the right one
Deciding(op) == IF op = "BinOpTypeBoolAnd" THEN 0 ELSE 1

\* the branch built between the operands a and b, and the block b is lowered into
OperandBranch(b) == InstrAt(g, LocOf(g, g.exprs[b].lo - 1))
OperandBlock(op, b) == OperandBranch(b).blocks[IF op = "BinOpTypeBoolAnd" THEN 1 ELSE 2]

\* for the operator node n with operands a and b: b's block is entered only by
\* the branch on a's value, on the side where a does not decide; every
\* instruction of b lies behind it; when an instruction of b has run, a did not
\* decide; and when a decided, the value of n is a's
ShortCircuit(op, n, a, b) ==
    /\ OperandBranch(b).op = "condbr" /\ OperandBranch(b).args[1] = ValueOf(a)
    /\ PredEdges(g, OperandBlock(op, b))
           = {<<LocOf(g, g.exprs[b].lo - 1)[1], IF op = "BinOpTypeBoolAnd" THEN 1 ELSE 2>>}
    /\ \A i \in InstrsOf(b) : Dominates(g, OperandBlock(op, b), LocOf(g, i)[1])
    /\ RanSome(b) => Evaluated(ValueOf(a)) /\ EvalInt(ValueOf(a)) # Deciding(op)
    /\ (ValueOf(n).k = "inst" /\ ValueOf(n).n \in ran) =>
           /\ Evaluated(ValueOf(a))
           /\ EvalInt(ValueOf(a)) = Deciding(op) =>
                  ~RanSome(b) /\ EvalInt(ValueOf(n)) = Deciding(op)

BoolNode == g.body.kids[1].kids[1]

\* C1: in the code lowered for `a and b` the instructions of b lie only behind the
\* branch taken when a is true, for `a or b` when a is false; on a run where a is
\* false (resp. true) no instruction of b runs and the result equals a.
C1_ShortCircuit ==
    (g.label[1] = "bool" /\ Executing) =>
        /\ ShortCircuit(BoolNode.name, 3, 10, 20)
        /\ BoolNode.kids[2].type = "BinOpExpr" =>
               ShortCircuit(BoolNode.kids[2].name, 20, 21, 24)
        /\ (phase = "returned" /\ EvalInt(ValueOf(10)) = Deciding(BoolNode.name)) =>
               regs[0] = <<Deciding(BoolNode.name)>>

\* `p and {print; q}` and `p or {print; q}` have returned p without printing
C1_Witness ==
    /\ g.label[1] = "bool" /\ g.label[3] = "p" /\ g.label[4] = "{print;q}"
    /\ phase = "returned" /\ out = <<>>
    /\ EvalInt(ValueOf(10)) = Deciding(BoolNode.name)
    /\ regs[0] = <<Deciding(BoolNode.name)>>

\* the pointer-sized word at an address
WordAt(addr) == Decode(SubSeq(mem, addr, addr + PointerSizeBytes - 1))
LenOffset == FieldOffset(type_ref("[]u8"), 1)

\* the slice expression base[i .. j] of a slice program, as the caller sees it:
\* where element 0 of the base lies, i, and j
SliceNode == g.body.kids[Len(g.body.kids)].kids[1]
SliceBaseAddr ==
    CASE g.label[2] = "array" -> EvalInt(g.value_ref["array"])
      [] g.label[2] \in {"arr", "ptr"} -> ArrAddr
      [] g.label[2] = "sl" -> WordAt(SlAddr)
SliceStart == SliceNode.kids[2].value
SliceEnd ==
    CASE g.label[3] = "2" -> 2
      [] g.label[3] = "n" -> Decode(args[4])
      [] g.label[3] = "none" -> IF g.label[2] = "sl" THEN WordAt(SlAddr + LenOffset)
                                ELSE ArrayLen
SliceTmp == EvalInt(g.struct_val_ptr[SliceNode.id])

\* C6: lowering a[i..j] over a fixed array, a raw pointer or a slice stores
\* ptr = the address of element i of the base and len = j - i into the slice
\* temporary; without an end, j is the array's length or the base slice's len.
C6_SliceLength ==
    g.label[1] = "slice" =>
        /\ phase \notin {"sigsegv", "abort", "ub"}
        /\ phase = "returned" =>
               /\ WordAt(SliceTmp) = (SliceBaseAddr + SliceStart) % Pow256(PointerSizeBytes)
               /\ WordAt(SliceTmp + LenOffset)
                      = (SliceEnd - SliceStart) % Pow256(PointerSizeBytes)

\* sl[1 ..] has been lowered and run: the temporary holds the rest of sl
C6_Witness ==
    /\ g.label = <<"slice", "sl", "none">> /\ phase = "returned"
    /\ SliceStart = 1
    /\ WordAt(SliceTmp) = WordAt(SlAddr) + 1
    /\ WordAt(SliceTmp + LenOffset) = WordAt(SlAddr + LenOffset) - 1

\* the fields a and b of the Foo at an address
FooAt(addr) == <<mem[addr], WordAt(addr + FieldOffset(type_ref("Foo"), 1))>>

\* what `x ?? d` is to evaluate to in a maybe program: the wrapped value when x
\* was produced by the wrap of a value, the default when by the null literal
MaybeExpected ==
    CASE g.label[3] = "v" -> args[1]
      [] g.label[3] = "5" -> <<5>>
      [] g.label[4] = "9" -> <<9>>
      [] OTHER -> args[2]

\* C7: for every value v and default d, `x ?? d` evaluates to v when x was
\* produced by the MaybeWrap cast of v, and to d when x was produced by the null
\* literal; d's code runs only in the null case.
C7_MaybeRoundTrip ==
    g.label[1] = "maybe" =>
        /\ phase \notin {"sigsegv", "abort"}
        /\ phase = "generated" => LLVMVerifyModule(g)
        /\ (phase = "returned" /\ g.label[2] # "Foo") => regs[0] = MaybeExpected
        /\ (phase = "returned" /\ g.label[2] = "Foo") =>
               FooAt(EvalInt(g.value_ref["y"]))
                   = FooAt(IF g.label[3] = "fo" THEN FoAddr ELSE FdAddr)
        /\ (Executing /\ g.label[2] # "Foo" /\ g.label[3] # "null") =>
               ~RanSome(10) /\ out = <<>>

\* an if program whose then arm has type Unreachable and whose else arm has a value
IfThenUnreachable ==
    /\ g.label[1] = "if" /\ Len(g.label) = 4
    /\ g.label[3] \in {"return 1", "unreachable{}", "abort()"}
EndIfBlock == CHOOSE b \in 1 .. Len(g.blocks) : g.blocks[b].name = "EndIf"

\* the join is entered only by the branch built after the else arm
OnlyElseJoins == PredEdges(g, EndIfBlock) = {<<LocOf(g, g.exprs[20].hi)[1], 1>>}

\* C8: lowering `if (c) then_expr else else_expr` with then_expr of type
\* Unreachable and else_expr producing a value, the only branch into EndIf comes
\* from the end of the else path, and the value the lowering returns for the
\* if-expression is the else arm's value.
C8_IfValueReachability ==
    IfThenUnreachable =>
        /\ phase \notin {"sigsegv", "abort"}
        /\ phase = "generated" => LLVMVerifyModule(g)
        /\ 6 \in DOMAIN g.exprs => OnlyElseJoins /\ ValueOf(6) = ValueOf(20)
        /\ (phase = "returned" /\ args[1] = <<0>>) => regs[0] = EvalBytes(ValueOf(20))

\* the assignment `target = source` that ends an assign program, the type T of
\* both sides, where they lie, and the last instruction lowered for it
AssignNode == g.body.kids[Len(g.body.kids)]
AssignType == AssignNode.kids[1].ty
AssignTarget == EvalInt(g.value_ref[AssignNode.kids[1].name])
AssignSource == EvalInt(g.value_ref[AssignNode.kids[2].name])
AssignSize == size_in_bits(AssignType) \div 8
AssignCall == g.exprs[AssignNode.id].hi - 1
AtAssignCall == g.label[1] = "assign" /\ Running /\ Cur.id = AssignCall

\* memory after the step: the target holds the source's bytes, all else is as before
CopiedExactly ==
    \A a \in 1 .. Len(mem) :
        mem'[a] = IF a >= AssignTarget /\ a < AssignTarget + AssignSize
                  THEN mem[AssignSource + (a - AssignTarget)]
                  ELSE mem[a]

AggregateAssignStep ==
    /\ g.label[1] = "assign" => phase' \notin {"sigsegv", "abort", "ub"}
    /\ AtAssignCall =>
           /\ Cur.op = "call" /\ Cur.name = "memcpy"
           /\ Cur.args[3] = LLVMConstInt(type_ref("isize"), AssignSize)
           /\ Cur.args[4] = LLVMConstInt(LLVMInt32Type, align_in_bits(AssignType) \div 8)
           /\ handle_is_ptr(AssignType)
           /\ CopiedExactly
           /\ \A k \in 0 .. AssignSize - 1 :
                  mem'[AssignTarget + k] = mem'[AssignSource + k]
                  /\ mem'[AssignSource + k] = mem[AssignSource + k]

\* C9: assigning a value of aggregate type T to a target of type T copies exactly
\* size_in_bits(T)/8 bytes with alignment align_in_bits(T)/8 from the source to
\* the target: afterwards the target is bytewise identical to the source and the
\* source is unchanged.
C9_AggregateAssign == [][AggregateAssignStep]_vars

\* foo2 = foo1 has run after foo1.a = a and foo1.b = b: foo2 holds a and b
C9_Witness ==
    /\ g.label = <<"assign", "foo2 = foo1">> /\ phase = "returned"
    /\ AssignCall \in ran
    /\ FooAt(AssignTarget) = <<Decode(args[1]), Decode(args[2])>>
    /\ FooAt(AssignSource) = FooAt(AssignTarget)

\* the loop of a for program: its blocks, the index variable, the index ForCond
\* loaded last, and the iterated array or slice as the caller sees it
ForCondBlock == CHOOSE b \in 1 .. Len(g.blocks) : g.blocks[b].name = "ForCond"
ForIndex == WordAt(EvalInt(g.value_ref["i"]))
ForIndexLoaded == Decode(regs[g.blocks[ForCondBlock].instrs[1].id])
ForLen == IF g.label[2] = "arr" THEN ArrayLen ELSE WordAt(SlAddr + LenOffset)
ForElem(k) == mem[(IF g.label[2] = "arr" THEN ArrAddr ELSE WordAt(SlAddr)) + k]

\* C10: a lowered for loop over an array or slice of length n runs its body for
\* index 0, 1, ..., n-1 in that order, each with the element at that index, and
\* then reaches ForEnd; every path from ForBody back to ForCond (fall-through and
\* `continue` alike) has incremented the index by exactly one.
C10_ForLoop ==
    g.label[1] = "for" =>
        /\ phase \notin {"sigsegv", "abort", "ub"}
        /\ (Running /\ pc = <<ForCondBlock, 1>> /\ prev_block # 1) =>
               ForIndex = ForIndexLoaded + 1
        /\ (Executing /\ g.label[3] = "print(item)") =>
               /\ Len(out) <= ForLen
               /\ \A j \in 1 .. Len(out) : out[j] = ForElem(j - 1)
        /\ (phase = "returned" /\ g.label[3] = "print(item)") =>
               Len(out) = ForLen /\ ForIndex = ForLen


(***************************************************************************)
(* Claims about loops, labels, scopes and unreachable code (checked under  *)
(* SpecLower).  They are about the function do_code_gen has finished:      *)
(* g.exprs[id].entry and .exit are the frames gen_expr was entered and     *)
(* left with for node id.                                                  *)
(***************************************************************************)
Generated == phase = "generated"
Nodes == {Preorder(g.body)[i] : i \in 1 .. Len(Preorder(g.body))}
Lowered(type) == {n \in Nodes : n.type = type /\ n.id \in DOMAIN g.exprs}
Entry(n) == g.exprs[n.id].entry
Exit(n) == g.exprs[n.id].exit

\* the blocks a loop appends before it lowers its first child
FirstLowered(n) == IF n.type = "WhileExpr" /\ n.condition_always_true THEN n.kids[2] ELSE n.kids[1]
LoopBlocks(n) ==
    [k \in 1 .. (Entry(FirstLowered(n)).blocks - Entry(n).blocks) |-> Entry(n).blocks + k]
LoopBlockNames(n) == [k \in 1 .. Len(LoopBlocks(n)) |-> g.blocks[LoopBlocks(n)[k]].name]

\* the body is lowered with exactly brk and cont pushed, and both are popped after
Pushed(n, brk, cont) ==
    /\ Entry(n.kids[2]).break_block_stack = Append(Entry(n).break_block_stack, brk)
    /\ Entry(n.kids[2]).continue_block_stack = Append(Entry(n).continue_block_stack, cont)
    /\ Exit(n).break_block_stack = Entry(n).break_block_stack
    /\ Exit(n).continue_block_stack = Entry(n).continue_block_stack

\* a body that can end ends with an unconditional branch to `back`
BackBranch(n, back) ==
    type_table(get_expr_type(n.kids[2])).id # TypeTableEntryIdUnreachable =>
        LET b == Exit(n.kids[2]).insert_block
            t == g.blocks[b].instrs[Len(g.blocks[b].instrs)]
        IN t.op = "br" /\ t.blocks = <<back>>

SingleBodyBlock(n) ==
    /\ LoopBlockNames(n) = <<"WhileBody">>
    /\ BackBranch(n, LoopBlocks(n)[1])

CondBodyEnd(n) ==
    /\ LoopBlockNames(n) = <<"WhileCond", "WhileBody", "WhileEnd">>
    /\ Pushed(n, LoopBlocks(n)[3], LoopBlocks(n)[1])
    /\ BackBranch(n, LoopBlocks(n)[1])

\* the forever loop that can be left: no WhileCond, `continue` goes to WhileBody
BodyEnd(n) ==
    /\ LoopBlockNames(n) = <<"WhileBody", "WhileEnd">>
    /\ Pushed(n, LoopBlocks(n)[2], LoopBlocks(n)[1])
    /\ BackBranch(n, LoopBlocks(n)[1])

\* C17 as stated: a single body block with a back-branch exactly for a constant
\* true condition without a break; in every other case WhileCond, WhileBody and
\* WhileEnd, with WhileEnd pushed on the break stack and WhileCond on the
\* continue stack while the body is lowered, and both popped after.
C17_WhileBlocks ==
    Generated =>
        \A n \in Lowered("WhileExpr") :
            IF n.condition_always_true /\ ~n.contains_break THEN SingleBodyBlock(n)
            ELSE CondBodyEnd(n)

\* C17 (amended): a constant true condition never gets a WhileCond block: with
\* a break the loop has WhileBody and WhileEnd, pushes WhileEnd on the break
\* stack and WhileBody on the continue stack; without one it has WhileBody
\* alone and pushes the null block and WhileBody.  Any other condition gets
\* WhileCond, WhileBody and WhileEnd, with WhileEnd and WhileCond pushed.  The
\* stacks are popped after the body in every case.
C17_WhileBlocksExact ==
    Generated =>
        \A n \in Lowered("WhileExpr") :
            CASE n.condition_always_true /\ ~n.contains_break ->
                    SingleBodyBlock(n) /\ Pushed(n, 0, LoopBlocks(n)[1])
              [] n.condition_always_true /\ n.contains_break -> BodyEnd(n)
              [] OTHER -> CondBodyEnd(n)

C17_Witness ==
    /\ Generated
    /\ \E n \in Lowered("WhileExpr") : n.condition_always_true /\ n.contains_break
    /\ \E n \in Lowered("WhileExpr") : ~n.condition_always_true


LoopTypes == {"WhileExpr", "ForExpr"}
Ids(node) == {Preorder(node)[i].id : i \in 1 .. Len(Preorder(node))}

\* the loops whose body n is part of, and the innermost of them
Enclosing(n) == {l \in Nodes : l.type \in LoopTypes /\ n.id \in Ids(l.kids[2])}
Innermost(n) == CHOOSE l \in Enclosing(n) : Enclosing(l) = Enclosing(n) \ {l}

\* the blocks loop l appended before it lowered its body: its header is the
\* first of them (the condition's block, or the body's of a forever loop)
OwnBlock(l, b) == b > Entry(l).blocks /\ b <= Entry(l.kids[2]).blocks
HeaderBlock(l, b) ==
    /\ b = Entry(l).blocks + 1 /\ OwnBlock(l, b)
    /\ g.blocks[b].name = (IF l.type = "ForExpr" THEN "ForCond"
                           ELSE IF l.condition_always_true THEN "WhileBody" ELSE "WhileCond")
ExitBlock(l, b) ==
    OwnBlock(l, b) /\ g.blocks[b].name = (IF l.type = "ForExpr" THEN "ForEnd" ELSE "WhileEnd")

StackDepth(frame, depth) ==
    Len(frame.break_block_stack) = depth /\ Len(frame.continue_block_stack) = depth

\* the branch a break or continue node was lowered to
JumpTarget(n) == InstrAt(g, LocOf(g, g.exprs[n.id].lo)).blocks

\* C18: on entry to and on return from the lowering of every node, the break
\* and the continue stack are as deep as the node has enclosing loop bodies; a
\* break branches to the top of the break stack, the non-null exit block of
\* the innermost enclosing loop, a continue to the top of the continue stack,
\* that loop's header block; a loop leaves both stacks as it found them.
C18_LoopStacks ==
    Generated =>
        \A n \in Nodes : n.id \in DOMAIN g.exprs =>
            /\ StackDepth(Entry(n), Cardinality(Enclosing(n)))
            /\ StackDepth(Exit(n), Cardinality(Enclosing(n)))
            /\ n.type = "Break" =>
                  /\ JumpTarget(n) = <<Entry(n).break_block_stack[Len(Entry(n).break_block_stack)]>>
                  /\ JumpTarget(n)[1] # 0
                  /\ ExitBlock(Innermost(n), JumpTarget(n)[1])
            /\ n.type = "Continue" =>
                  /\ JumpTarget(n) =
                        <<Entry(n).continue_block_stack[Len(Entry(n).continue_block_stack)]>>
                  /\ HeaderBlock(Innermost(n), JumpTarget(n)[1])
            /\ n.type \in LoopTypes =>
                  /\ Exit(n).break_block_stack = Entry(n).break_block_stack
                  /\ Exit(n).continue_block_stack = Entry(n).continue_block_stack

\* a break and a continue in loops nested two deep, of both kinds
C18_Witness ==
    /\ Generated
    /\ \E n \in Lowered("Break") :
          Cardinality(Enclosing(n)) = 2 /\ Innermost(n).type = "WhileExpr"
    /\ \E n \in Lowered("Continue") : Innermost(n).type = "ForExpr"


\* the traversals that make another block context current while they lower
\* their children
ScopeTypes == {"Block", "IfVarExpr", "WhileExpr", "ForExpr"}

Restored(n) ==
    /\ Exit(n).cur_block_context = Entry(n).cur_block_context
    /\ Exit(n).cur_fn = Entry(n).cur_fn

\* do_code_gen is entered with no current function and no current block context
FunctionRestored == g.cur_fn = 0 /\ g.cur_block_context = 0

ChangedContext(n) ==
    \E k \in 1 .. Len(n.kids) :
        /\ n.kids[k].id \in DOMAIN g.exprs
        /\ Entry(n.kids[k]).cur_block_context # Entry(n).cur_block_context

LabelBlock(name) == g.labels[name].basic_block

\* a label node branches to its block when entered by fall-through, and leaves
\* the builder at its block
LabelLowered(n) ==
    /\ Exit(n).insert_block = LabelBlock(n.name)
    /\ IF g.labels[n.name].entered_from_fallthrough
       THEN /\ g.exprs[n.id].hi = g.exprs[n.id].lo + 1
            /\ LocOf(g, g.exprs[n.id].lo)[1] = Entry(n).insert_block
            /\ JumpTarget(n) = <<LabelBlock(n.name)>>
       ELSE g.exprs[n.id].hi = g.exprs[n.id].lo

\* C19: once do_code_gen has run, every label node of the function, at any
\* depth, has a basic block of its name; every goto lowered branches to the
\* block of its label, and every label lowered positions the builder there,
\* after a branch to it if it is entered by fall-through.
C19_LabelBlocks ==
    phase # "analyzed" =>
        /\ \A n \in Nodes : n.type = "Label" =>
              LabelBlock(n.name) # 0 /\ g.blocks[LabelBlock(n.name)].name = n.name
        /\ \A n \in Lowered("Goto") : JumpTarget(n) = <<LabelBlock(n.name)>>
        /\ \A n \in Lowered("Label") : LabelLowered(n)

\* the same for the labels among the statements of the function's body block
C19_TopLevelLabelBlocks ==
    (/\ phase # "analyzed"
     /\ \E n \in Nodes : n.type = "Label"
     /\ \A n \in Nodes : n.type = "Label" => n.ctx = 2) =>
        /\ ~g.crashed
        /\ \A n \in Nodes : n.type = "Label" =>
              LabelBlock(n.name) # 0 /\ g.blocks[LabelBlock(n.name)].name = n.name
        /\ \A n \in Nodes : n.type \in {"Goto", "Label"} => n.id \in DOMAIN g.exprs
        /\ \A n \in Lowered("Goto") : JumpTarget(n) = <<LabelBlock(n.name)>>
        /\ \A n \in Lowered("Label") : LabelLowered(n)


\* do_code_gen has lowered the whole function (the verifier may reject it)
Finished == phase \notin {"analyzed", "sigsegv"}

\* nothing was appended to the block the builder was at when n had been lowered
NothingAppended(n) ==
    Exit(n).insert_block # 0 =>
        Len(g.blocks[Exit(n).insert_block].instrs) = Exit(n).len

TerminatorLast(b) ==
    \A i \in 1 .. Len(g.blocks[b].instrs) - 1 : g.blocks[b].instrs[i].op \notin Terminators

\* C20: in the finished function, the block the builder was left at by the
\* lowering of a node of type unreachable has no instruction appended after
\* it, and no block has an instruction after a terminator.
C20_UnreachableElided ==
    Finished =>
        /\ \A n \in Nodes :
              (/\ n.id \in DOMAIN g.exprs
               /\ type_table(n.ty).id = TypeTableEntryIdUnreachable) => NothingAppended(n)
        /\ \A b \in 1 .. Len(g.blocks) : TerminatorLast(b)

\* the same, for every program but those with an operand of `and` or `or` that
\* is of type unreachable
C20_ElidedElsewhere == g.label[1] # "unreachable" => C20_UnreachableElided


(***************************************************************************)
(* Claims about do_code_gen over a module (checked under SpecModule).      *)
(***************************************************************************)
\* the passes of one loop among those made so far, by position in g.emitted
Passes(loop) == {k \in 1 .. Len(g.emitted) : g.emitted[k][1] = loop}

\* passes 1 .. n of a loop all come before position k
AllBefore(k, loop, n) ==
    \A j \in 1 .. n : \E k2 \in 1 .. k - 1 : g.emitted[k2] = <<loop, j>>

GlobalsSet == \A name \in DOMAIN g.value_ref : g.value_ref[name].k = "global"
ProtosProcessed == \A j \in 1 .. Len(g.fn_protos) : g.fn_protos[j].name \in DOMAIN g.attributes

\* the nodes of a function; every use of a global in a lowered body is a load
\* from the global's value_ref
NodesOf(fn) ==
    {Preorder(fn.body)[j] : j \in 1 .. Len(Preorder(fn.body))}
ReferencesResolved(fn) ==
    /\ ~fn.crashed
    /\ \A n \in NodesOf(fn) :
          (n.type = "Symbol" /\ n.name \in DOMAIN g.value_ref) =>
              /\ n.id \in DOMAIN fn.exprs
              /\ fn.exprs[n.id].val.k = "inst"
              /\ InstrAt(fn, LocOf(fn, fn.exprs[n.id].val.n)).args = <<g.value_ref[n.name]>>

\* C14: every pass over a function prototype comes after the passes over all
\* the globals, whose value_ref is then set; every function body is lowered
\* after the passes over all the prototypes; and a lowered body has each of its
\* uses of a global resolved to that global, wherever the global is declared.
C14_EmissionOrder ==
    /\ \A k \in Passes("fn_protos") :
          AllBefore(k, "global_vars", Len(g.global_vars)) /\ GlobalsSet
    /\ \A k \in Passes("fn_defs") :
          /\ AllBefore(k, "fn_protos", Len(g.fn_protos)) /\ ProtosProcessed
          /\ GlobalsSet
          /\ ReferencesResolved(g.fn_defs[g.emitted[k][2]])
    /\ g.loop \in {"verify", "done"} =>
          /\ Cardinality(Passes("global_vars")) = Len(g.global_vars)
          /\ Cardinality(Passes("fn_protos")) = Len(g.fn_protos)
          /\ Cardinality(Passes("fn_defs")) = Len(g.fn_defs)

\* a module whose first function uses its last global has been generated
C14_Witness ==
    /\ phase = "generated" /\ g.loop = "done"
    /\ Len(g.global_vars) = 2 /\ Len(g.fn_defs) = 2
    /\ g.fn_defs[1].label = <<"use", g.global_vars[2].name>>
    /\ ReferencesResolved(g.fn_defs[1])


(***************************************************************************)
(* Further claims about the bignum kernel (checked under SpecBignum).      *)
(***************************************************************************)
Returned(call, ops) ==
    bn_pc \in {"t", "tt", "r"} /\ call.op \in ops /\ IsInt(call.x)

\* C11: bignum_div and bignum_rem with a zero integer divisor, and bignum_rem
\* with a negative integer operand, end in a defined error outcome (the panic)
\* and never perform an undefined operation: no trap of the machine division,
\* and no result computed from a division by zero.
C11_DivRemDefined ==
    /\ halt # "sigfpe"
    /\ Returned(callT, {"div", "rem"}) => callT.y.data # 0
    /\ Returned(callT, {"rem"}) => ~callT.x.is_negative /\ ~callT.y.is_negative

\* the integer a BigNum stands for, and the exact result of add, sub, mul
ValueOfBn(bn) == IF bn.is_negative THEN -bn.data ELSE bn.data
Exact(call) ==
    CASE call.op = "add" -> ValueOfBn(call.x) + ValueOfBn(call.y)
      [] call.op = "sub" -> ValueOfBn(call.x) - ValueOfBn(call.y)
      [] call.op = "mul" -> ValueOfBn(call.x) * ValueOfBn(call.y)

OverflowProtocol(call, dest) ==
    /\ (call.op \in {"add", "sub", "mul"} /\ IsInt(call.x)) =>
           /\ call.ret = (Abs(Exact(call)) > UINT64_MAX)
           /\ ~call.ret => (dest.data = Abs(Exact(call))
                            /\ dest.is_negative = (Exact(call) < 0))
    /\ (call.op \in {"div", "rem"} /\ IsInt(call.x)) => ~call.ret

\* C12: for integers, bignum_add, bignum_sub and bignum_mul return true exactly
\* when the magnitude of the exact result does not fit in 64 unsigned bits, never
\* panic, and when they return false the result's sign and magnitude are the
\* exact result; bignum_div and bignum_rem always return false.
C12_OverflowProtocol ==
    /\ bn_pc = "t" => OverflowProtocol(callT, bn_t)
    /\ bn_pc = "r" => OverflowProtocol(callR, bn_r)

\* C13 as stated: signed, fits_in_bits(a, n) is true iff a's magnitude is
\* <= 2^(n-1), for a non-negative and for a negative a alike; unsigned, iff a is
\* non-negative and the bits its magnitude needs are <= n.
C13_FitsInBits ==
    /\ (query.op = "fits_signed" /\ query.n \in 1 .. WordBits) =>
           query.flag = (query.x.data <= Pow2(query.n - 1))
    /\ query.op = "fits_unsigned" =>
           query.flag = (~query.x.is_negative /\ u64_log2(query.x.data) <= query.n)

\* C13 as amended: for widths 1 .. 64, signed: true iff the magnitude is
\* <= 2^(n-1) - 1 when is_negative is false and <= 2^(n-1) when it is true;
\* unsigned: true iff a is zero or is_negative is false, and the bits its
\* magnitude needs are <= n.
C13_FitsInBitsExact ==
    /\ (query.op = "fits_signed" /\ query.n \in 1 .. WordBits) =>
           query.flag = (query.x.data <= (IF query.x.is_negative THEN Pow2(query.n - 1)
                                          ELSE Pow2(query.n - 1) - 1))
    /\ query.op = "fits_unsigned" =>
           query.flag = (/\ query.x.data = 0 \/ ~query.x.is_negative
                         /\ u64_log2(query.x.data) <= query.n)

\* +2^(n-1) does not fit in n signed bits
C13_Witness ==
    /\ query.op = "fits_signed" /\ query.n \in 1 .. WordBits
    /\ ~query.x.is_negative /\ query.x.data = Pow2(query.n - 1)
    /\ ~query.flag

\* the number whose w-bit two's-complement representation is the complement of
\* a's w-bit representation
Complement(a, w) == (Pow2(w) - 1) - (ValueOfBn(a) % Pow2(w))
NotExpected(a, w, is_signed) ==
    IF is_signed /\ Complement(a, w) >= Pow2(w - 1) THEN Complement(a, w) - Pow2(w)
    ELSE Complement(a, w)

\* C16: bignum_not(dest, a, w, is_signed) yields the number whose w-bit
\* two's-complement representation is the bitwise complement of a's, read as
\* signed when is_signed is true (the signed not of 0 is -1) and as unsigned
\* otherwise.
C16_Not ==
    (bn_pc = "t" /\ callT.op \in {"not_signed", "not_unsigned"} /\ callT.n \in 1 .. WordBits) =>
        ValueOfBn(bn_t) = NotExpected(callT.x, callT.n, callT.op = "not_signed")


(***************************************************************************)
(* Claims about the phis of `and`, `or`, if/else and `??` (checked under   *)
(* SpecLower).                                                             *)
(***************************************************************************)
\* the terminator that ends block p: the first one built in it
FirstTerminator(p) ==
    LET is == g.blocks[p].instrs
        ts == {i \in 1 .. Len(is) : is[i].op \in Terminators} IN
    IF ts = {} THEN 0 ELSE CHOOSE i \in ts : \A j \in ts : i <= j

\* the blocks whose terminator branches to block b
Branchers(b) ==
    {p \in 1 .. Len(g.blocks) :
        /\ FirstTerminator(p) # 0
        /\ \E k \in 1 .. Len(g.blocks[p].instrs[FirstTerminator(p)].blocks) :
              g.blocks[p].instrs[FirstTerminator(p)].blocks[k] = b}

Phis == {loc \in InstrLocs(g) : InstrAt(g, loc).op = "phi"}

OneIncomingPerBrancher(loc) ==
    LET ins == InstrAt(g, loc) IN
    /\ Len(ins.args) = Len(ins.blocks)
    /\ Len(ins.blocks) = Cardinality(Branchers(loc[1]))
    /\ {ins.blocks[j] : j \in 1 .. Len(ins.blocks)} = Branchers(loc[1])

\* C21: in the finished function every phi has exactly one incoming pair for
\* each block that branches to the phi's block, and none for another block.
C21_PhiIncoming == Finished => \A loc \in Phis : OneIncomingPerBrancher(loc)

\* the same, for every program but those with a right operand of `and` or `or`
\* of type unreachable, or an else arm of type unreachable after a then arm
\* with a value
UnreachableArm ==
    \E n \in Nodes :
        \/ /\ n.type = "BinOpExpr"
           /\ n.name \in {"BinOpTypeBoolAnd", "BinOpTypeBoolOr"}
           /\ type_table(n.kids[2].ty).id = TypeTableEntryIdUnreachable
        \/ /\ n.type = "IfBoolExpr" /\ Len(n.kids) = 3
           /\ type_table(n.kids[2].ty).id \notin
                  {TypeTableEntryIdUnreachable, TypeTableEntryIdVoid}
           /\ type_table(n.kids[3].ty).id = TypeTableEntryIdUnreachable

C21_PhiIncomingElsewhere == ~UnreachableArm => C21_PhiIncoming


(***************************************************************************)
(* Claims about the integer casts (checked under SpecLower, over the       *)
(* programs `return w` with w: S cast to the return type T).               *)
(***************************************************************************)
CastNode == g.body.kids[1].kids[1]
CastFrom == g.label[2]
CastTo == g.label[3]
CastOperand == LLVMGetParam(0, type_ref(CastFrom))
CastResult == InstrAt(g, LocOf(g, ValueOf(CastNode.id).n))
CastInstrs == {loc \in InstrLocs(g) : InstrAt(g, loc).op \in {"sext", "zext", "trunc"}}

\* the number a byte string stands for in type ty, read as signed or unsigned
Numeric(bytes, ty, is_signed) ==
    IF is_signed THEN Signed(Decode(bytes), type_ref(ty)) ELSE Decode(bytes)

\* the one cast instruction has the operator op, T as its type and w as its
\* operand
CastBuilt(op) ==
    /\ ValueOf(CastNode.id).k = "inst"
    /\ CastResult.op = op
    /\ CastResult.ty = type_ref(CastTo)
    /\ Cardinality(CastInstrs) = 1
    /\ CastResult.args = <<CastOperand>>

CastLowering ==
    IF size_in_bits(CastFrom) = size_in_bits(CastTo)
    THEN ValueOf(CastNode.id) = CastOperand /\ CastInstrs = {}
    ELSE IF size_in_bits(CastFrom) < size_in_bits(CastTo)
    THEN CastBuilt(IF type_table(CastFrom).is_signed THEN "sext" ELSE "zext")
    ELSE CastBuilt("trunc")

CastValue ==
    /\ Len(regs[0]) = size_in_bits(CastTo) \div 8
    /\ IF size_in_bits(CastFrom) = size_in_bits(CastTo)
       THEN regs[0] = args[1]
       ELSE IF size_in_bits(CastFrom) < size_in_bits(CastTo)
       THEN Numeric(regs[0], CastTo, type_table(CastFrom).is_signed)
            = Numeric(args[1], CastFrom, type_table(CastFrom).is_signed)
       ELSE Decode(regs[0]) = Decode(args[1]) % Modulus(type_ref(CastTo))

\* C22: the cast from integer type S to integer type T builds nothing when the
\* widths are equal, one sext when T is wider and S signed, one zext when T is
\* wider and S unsigned, one trunc when T is narrower; the function returns
\* its argument unchanged, with the same number under S's signedness, or
\* reduced modulo 2^width(T), accordingly.
C22_IntWidenOrShorten ==
    (g.label[1] = "cast" /\ phase # "analyzed") =>
        /\ phase \in {"generated", "running", "returned"}
        /\ CastLowering
        /\ phase = "returned" => CastValue

\* -56 in an i8 has been returned as -56 in an isize
C22_Witness ==
    /\ g.label = <<"cast", "i8", "isize">>
    /\ phase = "returned"
    /\ args[1] = <<200>>
    /\ Decode(regs[0]) = Pow256(PointerSizeBytes) - 56


(***************************************************************************)
(* Claims about zero-sized values (checked under SpecLower).               *)
(***************************************************************************)
\* i32, the type of the alignment of memcpy and memset, is not in type_table
ZeroSized(ty) == ty.p = 0 /\ ty # LLVMInt32Type /\ size_in_bits(ty.t) = 0

\* no call has an argument of a zero-sized type
CallArgsSized ==
    \A loc \in InstrLocs(g) :
        InstrAt(g, loc).op = "call" =>
            \A k \in 1 .. Len(InstrAt(g, loc).args) : ~ZeroSized(InstrAt(g, loc).args[k].ty)

\* the instructions built for the field node and its expression
FieldInstrs(field_node) == {loc \in InstrLocs(g) : InstrAt(g, loc).dbg[1] \in Ids(field_node)}

StructInits == {n \in Lowered("ContainerInitExpr") : type_table(n.ty).id = TypeTableEntryIdStruct}

ZeroFieldsSkipped(n) ==
    \A i \in 1 .. Len(n.kids) :
        size_in_bits(structure_fields(n.ty)[i].type_entry) = 0 => FieldInstrs(n.kids[i]) = {}

\* C23: no call receives an argument of a zero-sized type, a struct
\* initializer builds no instruction for a zero-sized field, and the lowering
\* of such a call or initializer does not crash.
C23_ZeroSizedElided ==
    /\ g.label[1] \in {"call", "init"} => phase # "sigsegv"
    /\ Finished => CallArgsSized /\ \A n \in StructInits : ZeroFieldsSkipped(n)

\* the same, for every program but the calls of the variadic function with a
\* zero-sized argument and the initializer of the struct with a zero-sized
\* field that is not void
C23_ZeroSizedElsewhere ==
    g.label \notin {<<"call", "printf", "u">>, <<"call", "printf", "print(d)">>,
                    <<"init", "Baz">>}
        => C23_ZeroSizedElided


(***************************************************************************)
(* Claims about aggregates (checked under SpecLower).                      *)
(***************************************************************************)
\* the nodes gen_expr has lowered whose type is an aggregate
AggregateNodes == {n \in Nodes : n.id \in DOMAIN g.exprs /\ handle_is_ptr(get_expr_type(n))}

ByPointer(n) == LLVMTypeOf(ValueOf(n.id)) = LLVMPointerType(type_ref(get_expr_type(n)))

\* C24: gen_expr returns, for every expression of an aggregate type, a pointer
\* to the aggregate.
C24_AggregateByPointer == Finished => \A n \in AggregateNodes : ByPointer(n)

\* the same, for every program but those that unwrap a maybe of a struct or
\* read a field that is a struct
C24_ByPointerElsewhere ==
    (g.label[1] # "field" /\ ~(g.label[1] = "maybe" /\ g.label[2] = "Foo"))
        => C24_AggregateByPointer


(***************************************************************************)
(* Claims about if (const y ?= x) (checked under SpecLower, over the       *)
(* programs `if (const y ?= SRC) print(y) else print(d)`).                 *)
(***************************************************************************)
IfVarNode == g.body.kids[1]
Scrutinee == IfVarNode.kids[1]
Producer(v) == InstrAt(g, LocOf(g, v.n))

\* v is the load of field idx of the maybe the scrutinee was lowered to
LoadOfField(v, idx) ==
    /\ v.k = "inst" /\ Producer(v).op = "load"
    /\ Producer(v).args[1].k = "inst"
    /\ Producer(Producer(v).args[1]).op = "structgep"
    /\ Producer(Producer(v).args[1]).n = idx
    /\ Producer(Producer(v).args[1]).args[1] = ValueOf(Scrutinee.id)

\* the stores of the maybe's flag built for the scrutinee, the stores into the
\* declared variable, and the conditional branches
FlagStores ==
    {loc \in InstrLocs(g) : /\ InstrAt(g, loc).op = "store"
                            /\ InstrAt(g, loc).dbg[1] = Scrutinee.id
                            /\ InstrAt(g, loc).args[1].ty = LLVMInt1Type}
VarStores ==
    {loc \in InstrLocs(g) : /\ InstrAt(g, loc).op = "store"
                            /\ InstrAt(g, loc).args[2] = g.value_ref[IfVarNode.name]}
CondBrs == {loc \in InstrLocs(g) : InstrAt(g, loc).op = "condbr"}
VarStore == CHOOSE loc \in VarStores : TRUE
CondBr == CHOOSE loc \in CondBrs : TRUE

\* the scrutinee is lowered once, the one store into the variable stores the
\* load of field 0, and the one branch tests the load of field 1
IfVarLowering ==
    /\ Cardinality(FlagStores) = 1
    /\ Cardinality(VarStores) = 1 /\ LoadOfField(InstrAt(g, VarStore).args[1], 0)
    /\ Cardinality(CondBrs) = 1 /\ LoadOfField(InstrAt(g, CondBr).args[1], 1)

IfVarPrinted ==
    out = <<CASE g.label[2] = "v" -> Decode(args[1])
              [] g.label[2] = "5" -> 5
              [] g.label[2] = "null" -> Decode(args[2])>>

\* C25: the scrutinee is lowered once and the condition is the load of its
\* field 1; the store of the payload into the declared variable is in the
\* then arm, and a run that takes the else arm has not executed it.
C25_IfVar ==
    (g.label[1] = "ifvar" /\ phase # "analyzed") =>
        /\ phase \in {"generated", "running", "returned"}
        /\ IfVarLowering
        /\ g.blocks[VarStore[1]].name = "Then"
        /\ phase = "returned" =>
              /\ IfVarPrinted
              /\ g.label[2] = "null" => InstrAt(g, VarStore).id \notin ran

\* C25 as the code has it: the payload is loaded and stored into the declared
\* variable before the branch, in the block that tests field 1, so that every
\* run has executed the store, also the run that takes the else arm.
C25_IfVarEager ==
    (g.label[1] = "ifvar" /\ phase # "analyzed") =>
        /\ phase \in {"generated", "running", "returned"}
        /\ IfVarLowering
        /\ VarStore[1] = CondBr[1] /\ VarStore[2] < CondBr[2]
        /\ phase = "returned" =>
              /\ IfVarPrinted
              /\ InstrAt(g, VarStore).id \in ran

\* the run of `if (const y ?= null) ... else print(d)` has printed d
C25_Witness ==
    /\ g.label = <<"ifvar", "null">>
    /\ phase = "returned"
    /\ out = <<Decode(args[2])>>
    /\ InstrAt(g, VarStore).id \in ran

\* ---------------------------------------------------------------------------
\* Inline assembly: the constraint string of gen_asm_expr.  A Buf is a
\* sequence of characters; the template string takes no part in it.
\* ---------------------------------------------------------------------------

MaxAsmList == 2

AsmOutput(constraint, is_return) == [constraint |-> constraint, is_return |-> is_return]

\* an output constraint begins with '=' (asserted by gen_asm_expr)
OutputConstraints == {<<"=", "r">>, <<"=", "{", "a", "}">>}

InputConstraints == {<<"r">>, <<"{", "d", "}">>, <<"r", ",", "m">>}

Clobbers == {<<"c", "c">>, <<"m">>}

ListsOf(S) == UNION {[1 .. n -> S] : n \in 0 .. MaxAsmList}

ReturnCount(output_list) == Cardinality({k \in 1 .. Len(output_list) : output_list[k].is_return})

AsmExprs ==
    {[output_list |-> o, input_list |-> i, clobber_list |-> c, return_count |-> ReturnCount(o)] :
        o \in {l \in ListsOf({AsmOutput(c, r) : c \in OutputConstraints, r \in BOOLEAN}) :
                  ReturnCount(l) <= 1},
        i \in ListsOf(InputConstraints), c \in ListsOf(Clobbers)}

total_constraint_count(asm_expr) ==
    Len(asm_expr.output_list) + Len(asm_expr.input_list) + Len(asm_expr.clobber_list)

input_and_output_count(asm_expr) ==
    Len(asm_expr.output_list) + Len(asm_expr.input_list) - asm_expr.return_count

\* the comma after the item at total_index, put after every item as well
asm_comma_always(asm_expr, total_index) == <<",">>

asm_comma(asm_expr, total_index) ==
    IF total_index + 1 < total_constraint_count(asm_expr) THEN <<",">> ELSE <<>>

asm_output_constraint(asm_output) ==
    IF asm_output.is_return THEN <<"=">> \o Tail(asm_output.constraint)
    ELSE <<"=", "*">> \o Tail(asm_output.constraint)

asm_clobber_constraint(clobber_buf) == <<"~", "{">> \o clobber_buf \o <<"}">>

\* the three loops over outputs, inputs and clobbers, sharing total_index
RECURSIVE gen_asm_constraints(_, _, _)
gen_asm_constraints(asm_expr, constraint_buf, total_index) ==
    LET outputs == Len(asm_expr.output_list)
        inputs == Len(asm_expr.input_list)
    IN
    IF total_index < outputs
    THEN gen_asm_constraints(asm_expr,
             constraint_buf \o asm_output_constraint(asm_expr.output_list[total_index + 1])
                            \o asm_comma(asm_expr, total_index),
             total_index + 1)
    ELSE IF total_index < outputs + inputs
    THEN gen_asm_constraints(asm_expr,
             constraint_buf \o asm_expr.input_list[total_index - outputs + 1]
                            \o asm_comma(asm_expr, total_index),
             total_index + 1)
    ELSE IF total_index < total_constraint_count(asm_expr)
    THEN gen_asm_constraints(asm_expr,
             constraint_buf \o asm_clobber_constraint(
                                   asm_expr.clobber_list[total_index - outputs - inputs + 1])
                            \o asm_comma(asm_expr, total_index),
             total_index + 1)
    ELSE constraint_buf

AsmInit ==
    /\ bn_a = NoBn /\ bn_b = NoBn /\ bn_t = NoBn /\ bn_r = NoBn /\ bn_pc = "idle"
    /\ callT = NoCall /\ callR = NoCall /\ query = NoQuery /\ halt = "idle"
    /\ \E asm_expr \in AsmExprs : g = [asm_expr |-> asm_expr, constraint_buf |-> <<>>, param_count |-> 0]
    /\ phase = "asm" /\ args = <<>> /\ pc = <<0, 0>> /\ prev_block = 0
    /\ regs = <<>> /\ mem = <<>> /\ sp = 0 /\ out = <<>> /\ ran = {} /\ last = 0

GenAsmExpr ==
    /\ phase = "asm"
    /\ g' = [g EXCEPT !.constraint_buf = gen_asm_constraints(g.asm_expr, <<>>, 0),
                      !.param_count = input_and_output_count(g.asm_expr)]
    /\ phase' = "asm_built"
    /\ Idle

AsmNext == GenAsmExpr

SpecAsm == AsmInit /\ [][AsmNext]_vars

\* the items the claim lists, in its order
AsmItems(asm_expr) ==
    [k \in 1 .. Len(asm_expr.output_list) |->
        (IF asm_expr.output_list[k].is_return THEN <<"=">> ELSE <<"=", "*">>)
            \o SubSeq(asm_expr.output_list[k].constraint, 2, Len(asm_expr.output_list[k].constraint))]
    \o asm_expr.input_list
    \o [k \in 1 .. Len(asm_expr.clobber_list) |-> <<"~", "{">> \o asm_expr.clobber_list[k] \o <<"}">>]

RECURSIVE CommaJoined(_)
CommaJoined(items) ==
    IF items = <<>> THEN <<>>
    ELSE IF Len(items) = 1 THEN items[1]
    ELSE items[1] \o <<",">> \o CommaJoined(Tail(items))

RECURSIVE TotalLen(_)
TotalLen(items) == IF items = <<>> THEN 0 ELSE Len(items[1]) + TotalLen(Tail(items))

\* C26: the constraint string handed to the inline-asm call is the
\* comma-joined list of the outputs ("=<c>" for the returned output, "=*<c>"
\* for the others), then the inputs' constraints, then "~{name}" for each
\* clobber; with n >= 1 items it holds exactly n - 1 separating commas, and it
\* neither begins nor ends with one.
C26_AsmConstraints ==
    phase = "asm_built" =>
        LET items == AsmItems(g.asm_expr) IN
        /\ g.constraint_buf = CommaJoined(items)
        /\ items # <<>> =>
              /\ Len(g.constraint_buf) = TotalLen(items) + (Len(items) - 1)
              /\ g.constraint_buf[1] # ","
              /\ g.constraint_buf[Len(g.constraint_buf)] # ","
        /\ items = <<>> => g.constraint_buf = <<>>

\* a returned output, another output, an input and a clobber together
C26_Witness ==
    /\ phase = "asm_built"
    /\ g.asm_expr.return_count = 1
    /\ Len(g.asm_expr.output_list) = 2
    /\ Len(g.asm_expr.input_list) >= 1
    /\ Len(g.asm_expr.clobber_list) >= 1
    /\ g.constraint_buf[2] = "*"


\* ---------------------------------------------------------------------------
\* Parameter attributes of the prototypes
\* ---------------------------------------------------------------------------

\* the generated index of parameter k: the parameters before it that are not
\* of size zero
GenParamIndex(fn_proto, k) ==
    Cardinality({j \in 1 .. k - 1 : size_in_bits(fn_proto.params[j].type) # 0})

SizedParams == {jk \in (1 .. 4) \X (1 .. 3) :
                   /\ jk[1] <= Len(g.fn_protos)
                   /\ g.fn_protos[jk[1]].name \in DOMAIN g.attributes
                   /\ jk[2] <= Len(g.fn_protos[jk[1]].params)
                   /\ size_in_bits(g.fn_protos[jk[1]].params[jk[2]].type) # 0}

ParamOf(jk) == g.fn_protos[jk[1]].params[jk[2]]

AttributesOf(jk) ==
    g.attributes[g.fn_protos[jk[1]].name][GenParamIndex(g.fn_protos[jk[1]], jk[2]) + 1]

AttributesRight(jk) ==
    /\ "LLVMNoAliasAttribute" \in AttributesOf(jk) <=> ParamOf(jk).is_noalias
    /\ "LLVMReadOnlyAttribute" \in AttributesOf(jk) <=>
           (param_type_is_pointer(ParamOf(jk)) /\ param_type_is_const(ParamOf(jk)))

\* C27: once a prototype has been generated, each of its parameters that is
\* not of size zero carries, at its generated index, noalias iff it is declared
\* noalias and readonly iff its type in the prototype is a const pointer, a
\* parameter that is both noalias and const included.
C27_ParamAttributes == \A jk \in SizedParams : AttributesRight(jk)

\* the same for the parameters that are not both noalias and const
C27_AttributesElsewhere ==
    \A jk \in SizedParams :
        ~(ParamOf(jk).is_noalias /\ param_type_is_const(ParamOf(jk))) => AttributesRight(jk)


\* ---------------------------------------------------------------------------
\* Results of the bignum kernel and the prior contents of dest
\* ---------------------------------------------------------------------------

BinaryOps == {"add", "sub", "mul", "div", "rem", "or", "and", "xor", "shl", "shr"}

\* the operation of a recorded call, made again with dest holding d0; the
\* machine words left by a defined division or shift are those of the operands
ResultOf(call, d0) ==
    CASE call.op = "add" -> bignum_add(d0, call.x, call.y)
      [] call.op = "sub" -> bignum_sub(d0, call.x, call.y)
      [] call.op = "mul" -> bignum_mul(d0, call.x, call.y)
      [] call.op = "div" -> bignum_div(d0, call.x, call.y, call.x.data \div call.y.data)
      [] call.op = "rem" -> bignum_rem(d0, call.x, call.y, call.x.data % call.y.data)
      [] call.op = "or" -> bignum_or(d0, call.x, call.y)
      [] call.op = "and" -> bignum_and(d0, call.x, call.y)
      [] call.op = "xor" -> bignum_xor(d0, call.x, call.y)
      [] call.op = "shl" -> bignum_shl(d0, call.x, call.y, 0)
      [] call.op = "shr" -> bignum_shr(d0, call.x, call.y, 0)

\* a binary integer operation with a defined result that reported no overflow
DefinedCall(call) ==
    /\ call.op \in BinaryOps
    /\ call.x.kind = BigNumKindInt /\ call.y.kind = BigNumKindInt
    /\ ~call.ret
    /\ call.op \in {"div", "rem"} => call.y.data # 0
    /\ call.op \in {"shl", "shr"} => call.y.data < WordBits

Deterministic(call, result) == \A d0 \in PriorDest : ResultOf(call, d0).dest = result

\* the calls in which the kernel assigns dest's sign
SignAssigned(call) ==
    \/ call.op \in {"mul", "div"}
    \/ /\ call.op = "add"
       /\ \/ call.x.is_negative = call.y.is_negative
          \/ ResultOf(call, BigNum(BigNumKindInt, FALSE, 0)).dest.data = 0
          \/ IF call.x.is_negative THEN call.y.data < call.x.data
             ELSE call.x.data < call.y.data
    \/ /\ call.op = "sub"
       /\ \/ call.x.is_negative # call.y.is_negative
          \/ call.y.data = 0
          \/ ResultOf(call, BigNum(BigNumKindInt, FALSE, 0)).dest.data = 0
          \/ IF call.x.is_negative THEN call.y.data < call.x.data
             ELSE call.x.data < call.y.data
    \/ ResultOf(call, BigNum(BigNumKindInt, FALSE, 0)).dest.data = 0
          /\ call.op = "rem"

\* C28: the kind, sign and magnitude a binary integer operation (add, sub,
\* mul, div, rem, and, or, xor, shl, shr) leaves in dest when it reports no
\* overflow are those it leaves for the same operands whatever dest held
\* before the call.
C28_DestDeterminism ==
    /\ (bn_pc = "t" /\ DefinedCall(callT)) => Deterministic(callT, bn_t)
    /\ (bn_pc = "r" /\ DefinedCall(callR)) => Deterministic(callR, bn_r)

\* the same for the calls in which the kernel assigns dest's sign
C28_DeterminismWhereAssigned ==
    /\ (bn_pc = "t" /\ DefinedCall(callT) /\ SignAssigned(callT)) => Deterministic(callT, bn_t)
    /\ (bn_pc = "r" /\ DefinedCall(callR) /\ SignAssigned(callR)) => Deterministic(callR, bn_r)


\* ---------------------------------------------------------------------------
\* Construction of an enum value with a payload
\* ---------------------------------------------------------------------------

EnumCalls == {n \in Nodes : n.type = "FnCallExpr" /\ n.name2 # ""}

Instrs == {InstrAt(g, loc) : loc \in InstrLocs(g)}

\* the GEP of the tag field and of the union field of the enum value of n
EnumGeps(n, field) ==
    {ins \in Instrs : ins.op = "structgep" /\ ins.n = field
                         /\ ins.args[1] = g.struct_val_ptr[n.id]}

\* every instruction built for n before its tag GEP is of the lowering of the
\* payload that gen_expr returned last
PayloadOnce(n) ==
    \A ins \in Instrs, gep \in EnumGeps(n, 0) :
        (g.exprs[n.id].lo <= ins.id /\ ins.id < gep.id)
            => (g.exprs[n.kids[1].id].lo <= ins.id /\ ins.id < g.exprs[n.kids[1].id].hi)

\* the tag is stored through field 0
TagStored(n) ==
    \E gep \in EnumGeps(n, 0), st \in Instrs :
        /\ st.op = "store" /\ st.id > gep.id
        /\ st.args[1] = LLVMConstInt(type_ref("u8"), n.value)
        /\ st.args[2].k = "inst" /\ st.args[2].n = gep.id

\* the payload is stored through field 1, cast to a pointer to its type
PayloadStored(n) ==
    \E gep \in EnumGeps(n, 1), bc \in Instrs, st \in Instrs :
        /\ bc.op = "bitcast" /\ bc.args[1].k = "inst" /\ bc.args[1].n = gep.id
        /\ st.op = "store" /\ st.args[1] = g.exprs[n.kids[1].id].val
        /\ st.args[2].k = "inst" /\ st.args[2].n = bc.id

Prints == {n \in Nodes : n.type = "FnCallExpr" /\ n.name = "print"}

\* C29: lowering Enum.Variant(payload) lowers the payload once when it is
\* given, so that a run evaluates it once, and lowers nothing for it (and
\* reads no argument node) when it is absent; the tag is then stored through
\* field 0 and a payload that is not void through field 1.
C29_EnumValue ==
    g.label[1] = "enum" =>
        /\ phase # "sigsegv"
        /\ \A n \in EnumCalls :
              n.id \in DOMAIN g.exprs =>
                  /\ TagStored(n)
                  /\ n.kids # <<>> => PayloadOnce(n) /\ PayloadStored(n)
        /\ Len(out) <= Cardinality(Prints)

\* what holds of it: with a payload, the tag and the payload gen_expr
\* returned last are stored through fields 0 and 1
C29_EnumStores ==
    g.label[1] = "enum" =>
        /\ g.label[2] # "none" => phase # "sigsegv"
        /\ \A n \in EnumCalls :
              n.id \in DOMAIN g.exprs => TagStored(n) /\ PayloadStored(n)


\* ---------------------------------------------------------------------------
\* String literals: find_or_create_string and the string table.  Here g
\* holds the literals to lower in their order, i the next of them, str_table
\* (from the bytes of a string to its global), globals (the initializer of
\* each global added to the module) and str_val, the global returned for each
\* literal lowered.
\* ---------------------------------------------------------------------------

MaxLiterals == 3

StringLiteral(buf, c) == [buf |-> buf, c |-> c]

StringLiterals == {StringLiteral(buf, c) : buf \in {<<>>, <<"a">>, <<"a", "b">>}, c \in BOOLEAN}

\* the constant array of the bytes, with a terminating 0 unless told not to
LLVMConstString(str, DontNullTerminate) == IF DontNullTerminate THEN str ELSE Append(str, 0)

\* the table is looked up by the string's bytes alone
str_table_maybe_get(m, str) == IF str \in DOMAIN m.str_table THEN m.str_table[str] ELSE 0

find_or_create_string(m, str, c) ==
    IF str_table_maybe_get(m, str) # 0
    THEN [m EXCEPT !.str_val = Append(@, str_table_maybe_get(m, str))]
    ELSE [m EXCEPT !.globals = Append(@, LLVMConstString(str, ~c)),
                   !.str_table = (str :> (Len(m.globals) + 1)) @@ @,
                   !.str_val = Append(@, Len(m.globals) + 1)]

StringsInit ==
    /\ bn_a = NoBn /\ bn_b = NoBn /\ bn_t = NoBn /\ bn_r = NoBn /\ bn_pc = "idle"
    /\ callT = NoCall /\ callR = NoCall /\ query = NoQuery /\ halt = "idle"
    /\ \E n \in 1 .. MaxLiterals : \E literals \in [1 .. n -> StringLiterals] :
          g = [literals |-> literals, i |-> 1, str_table |-> <<>>, globals |-> <<>>,
               str_val |-> <<>>]
    /\ phase = "strings" /\ args = <<>> /\ pc = <<0, 0>> /\ prev_block = 0
    /\ regs = <<>> /\ mem = <<>> /\ sp = 0 /\ out = <<>> /\ ran = {} /\ last = 0

\* gen_expr_no_cast of the next string literal; its value is the address of
\* the first byte of the global
GenStringLiteral ==
    /\ phase = "strings" /\ g.i <= Len(g.literals)
    /\ g' = [find_or_create_string(g, g.literals[g.i].buf, g.literals[g.i].c)
                EXCEPT !.i = g.i + 1]
    /\ phase' = "strings"
    /\ Idle

StringsNext == GenStringLiteral

SpecStrings == StringsInit /\ [][StringsNext]_vars

\* the global returned for literal k holds exactly its bytes, terminated iff
\* the literal is a C string
GlobalRight(k) ==
    g.globals[g.str_val[k]] =
        (IF g.literals[k].c THEN Append(g.literals[k].buf, 0) ELSE g.literals[k].buf)

\* C30: the global returned for a string literal holds exactly the literal's
\* bytes and ends in a 0 iff the literal is a C string, whatever literals were
\* lowered before it; two literals of the same bytes and flag get the same
\* global.
C30_StringCache ==
    phase = "strings" =>
        /\ \A k \in 1 .. Len(g.str_val) : GlobalRight(k)
        /\ \A j, k \in 1 .. Len(g.str_val) :
              g.literals[j] = g.literals[k] => g.str_val[j] = g.str_val[k]

\* what holds of it: a literal gets the global of the first literal of the
\* same bytes, which is right for that first literal
C30_CacheByContents ==
    phase = "strings" =>
        \A k \in 1 .. Len(g.str_val) :
            LET first == CHOOSE j \in 1 .. k :
                             /\ g.literals[j].buf = g.literals[k].buf
                             /\ \A h \in 1 .. j - 1 : g.literals[h].buf # g.literals[k].buf
            IN g.str_val[k] = g.str_val[first] /\ GlobalRight(first)

====
